---- MODULE Spec2Model ----
(***************************************************************************)
(* FacilAbo API: the TTL caches, the handlers' stale fallback, the retry   *)
(* executor / resilient fetch client, the abuse rate tracker and its alert *)
(* e-mail, the iCalendar parsing, filtering and rewriting of the calendar  *)
(* routes, the nearby-service searches, and the scrapers of sport results  *)
(* and of the TV schedule.                                                 *)
(***************************************************************************)
EXTENDS Integers, Sequences, FiniteSets, TLC

VARIABLES
  now,          \* Date.now(), in milliseconds
  entries,      \* InMemoryTTLCache.entries (the stationCache instance)
  genericCache, \* v1-utils genericCache
  cache,        \* lib/types cache (TV schedule / sport results)
  written,      \* history: the value of the last set per cache and key
  underTest,    \* the unit a behaviour exercises: a cache API, or one route's
                \* function instance (each route is deployed with its own caches)
  lastCall,     \* the most recent direct cache API call and what it returned
  reqs,         \* the HTTP requests being handled
  opts,         \* the options of the withRetry call
  rt,           \* the withRetry call: position, attempt counter, lastError
  retryLog,     \* the onRetry(attempt, error, nextDelay) calls made so far
  inflight,     \* attempts whose operation has not settled yet
  env,          \* process.env as read by the abuse monitor
  counters,     \* the Redis counters abuse:v1:{kind}:{endpoint}:{window}s[:token]
  leaderboards, \* the Redis sorted sets abuse:v1:topip / abuse:v1:topua
  locks,        \* the Redis keys alert-lock:{dedupKey}
  emails,       \* history: the alert e-mails the SMTP server accepted, per
                \* dedup key, each with its time and whether the store
                \* answered its lock command
  tracked,      \* how many trackAbuseRequest calls were made
  decision,     \* the request and the AbuseDecision of the latest call
  arrivals,     \* history: the trackAbuseRequest calls of the traffic followed
                \* over time
  icsText,      \* the calendar text received from the upstream source
  composed,     \* history: the fragments that text was put together from
  timezone,     \* the UTC offset of the process's local time, in minutes
  icsResult,    \* the latest calendar operation and what it returned
  icsLines,     \* the lines of the calendar the proxy route is rewriting
  rewrites,     \* history: the upsertHeaderProp calls made on those lines
  route,        \* the service route a function instance serves
  upstream,     \* the records the service's upstream source holds
  svcCache,     \* the fetcher's result cache (stationCache, hospitalCache,
                \* postOfficeCache), each entry with the point searched for
  svcReq,       \* the service request being handled and its effects
  served,       \* how many service requests were taken
  discipline,   \* the sport whose result scraper a behaviour exercises
  feed,         \* the Flashscore feed found in the page fetched
  feedBlocks,   \* history: the blocks that feed was put together from
  scraped,      \* what the scraper returned
  tvPage,       \* the page the TV-schedule scraper fetched
  tvClock,      \* the day the TV-schedule scraper runs
  tvSchedule,   \* what the TV-schedule scraper parsed and returned
  mail,         \* the alert e-mail being sent: the position in the SMTP
                \* dialogue, what was written to the socket, the reply
                \* codes received, what sendAlertEmail returned
  origin        \* the upstream source of two overlapping searches: the
                \* state of its data, the state each request was answered
                \* from, and the responses in order of arrival

cacheVars == <<now, entries, genericCache, cache, written, underTest, lastCall,
              reqs>>
retryVars == <<opts, rt, retryLog, inflight>>
storeVars == <<counters, leaderboards, locks, emails>>
abuseVars == <<env, storeVars, tracked, decision, arrivals>>
icsVars == <<icsText, composed, timezone, icsResult, icsLines, rewrites>>
svcVars == <<route, upstream, svcCache, svcReq, served>>
feedVars == <<discipline, feed, feedBlocks, scraped>>
tvVars == <<tvPage, tvClock, tvSchedule>>
vars == <<cacheVars, retryVars, abuseVars, icsVars, svcVars, feedVars, origin,
  tvVars, mail>>
nonCacheVars == <<retryVars, abuseVars, icsVars, svcVars, feedVars, origin,
  tvVars, mail>>
nonRetryVars == <<cacheVars, abuseVars, icsVars, svcVars, feedVars, origin,
  tvVars, mail>>
nonAbuseVars == <<entries, genericCache, cache, written, underTest, lastCall,
                 reqs, retryVars, icsVars, svcVars, feedVars, origin,
  tvVars, mail>>
nonIcsVars == <<cacheVars, retryVars, abuseVars, svcVars, feedVars, origin,
  tvVars, mail>>
nonSvcVars == <<cacheVars, retryVars, abuseVars, icsVars, feedVars, origin,
  tvVars, mail>>
nonTvVars == <<cacheVars, retryVars, abuseVars, icsVars, svcVars, feedVars,
               origin, mail>>
nonMailVars == <<cacheVars, retryVars, abuseVars, icsVars, svcVars, feedVars,
                 origin, tvVars>>
nonFeedVars == <<cacheVars, retryVars, abuseVars, icsVars, svcVars, origin,
  tvVars, mail>>

(***************************************************************************)
(* Bounds                                                                  *)
(***************************************************************************)
MaxMsTicks == 1    \* millisecond ticks the clock may take within a second
MaxSecTicks == 2   \* whole-second ticks the clock may take
TtlMs == 1000      \* ttlMs the InMemoryTTLCache under study is built with
MaxTtlSeconds == 1 \* largest ttlSeconds passed to setCache

Keys == {"k1", "k2"}
Data == {"v1", "v2"}
Null == "null"

(***************************************************************************)
(* InMemoryTTLCache<T>                                                     *)
(***************************************************************************)
NoEntry == [present |-> FALSE, data |-> Null, timestamp |-> 0, ttl |-> 0]

Entry(data, timestamp, ttl) ==
  [present |-> TRUE, data |-> data, timestamp |-> timestamp, ttl |-> ttl]

\* get with an off-by-one expiry test (>= for >)
getExpiresAtTtl(es, ttlMs, key, t) ==
  LET entry == es[key] IN
  IF ~entry.present
    THEN [result |-> Null, entries |-> es]
    ELSE IF t - entry.timestamp >= ttlMs
      THEN [result |-> Null, entries |-> [es EXCEPT ![key] = NoEntry]]
      ELSE [result |-> entry.data, entries |-> es]

\* get(key): null when absent; evicts and returns null when expired
get(es, ttlMs, key, t) ==
  LET entry == es[key] IN
  IF ~entry.present
    THEN [result |-> Null, entries |-> es]
    ELSE IF t - entry.timestamp > ttlMs
      THEN [result |-> Null, entries |-> [es EXCEPT ![key] = NoEntry]]
      ELSE [result |-> entry.data, entries |-> es]

\* getStale(key): this.entries.get(key)?.data ?? null
getStale(es, key) ==
  IF es[key].present THEN es[key].data ELSE Null

\* a set that keeps the entry a key already has
setIfAbsent(es, key, data, t) ==
  IF es[key].present THEN es ELSE [es EXCEPT ![key] = Entry(data, t, 0)]

\* set(key, data): stores data with timestamp Date.now()
set(es, key, data, t) ==
  [es EXCEPT ![key] = Entry(data, t, 0)]

(***************************************************************************)
(* Generic cache of v1-utils: the ttl is stored per entry, in seconds      *)
(***************************************************************************)
MsPerSecond == 1000

getCache(gc, key, t) ==
  LET entry == gc[key] IN
  IF ~entry.present
    THEN [result |-> Null, entries |-> gc]
    ELSE IF t - entry.timestamp > entry.ttl * MsPerSecond
      THEN [result |-> Null, entries |-> [gc EXCEPT ![key] = NoEntry]]
      ELSE [result |-> entry.data, entries |-> gc]

setCache(gc, key, data, ttlSeconds, t) ==
  [gc EXCEPT ![key] = Entry(data, t, ttlSeconds)]

getStaleCache(gc, key) ==
  IF gc[key].present THEN gc[key].data ELSE Null

(***************************************************************************)
(* lib/types cache (TV schedule); the sport-results caches have the same   *)
(* code with their own TTL constant                                        *)
(***************************************************************************)
CACHE_TTL == 1000  \* 60 * 60 * 1000 in the source, scaled to the model clock

getCached(c, key, t) ==
  LET entry == c[key] IN
  IF ~entry.present
    THEN [result |-> Null, entries |-> c]
    ELSE IF t - entry.timestamp > CACHE_TTL
      THEN [result |-> Null, entries |-> [c EXCEPT ![key] = NoEntry]]
      ELSE [result |-> entry.data, entries |-> c]

setScheduleCache(c, key, data, t) ==
  [c EXCEPT ![key] = Entry(data, t, 0)]

(***************************************************************************)
(* History of writes, used only to state the claims                        *)
(***************************************************************************)
CacheNames == {"ttl", "generic", "tv"}
NeverWritten == [value |-> Null, at |-> 0, ttl |-> 0]
Wrote(w, c, key, data, t, ttl) ==
  [w EXCEPT ![c][key] = [value |-> data, at |-> t, ttl |-> ttl]]

(***************************************************************************)
(* lib/retry-utils: withRetry and fetchWithRetry.  Error messages are the  *)
(* character sequences the code builds, so that String.includes is a       *)
(* substring search.                                                       *)
(***************************************************************************)
DigitChar == <<"0", "1", "2", "3", "4", "5", "6", "7", "8", "9">>

\* String(n) for a three-digit n (template literal `${response.status}`)
StatusString(n) ==
  <<DigitChar[(n \div 100) + 1], DigitChar[((n \div 10) % 10) + 1],
    DigitChar[(n % 10) + 1]>>

\* String.prototype.includes
includes(msg, needle) ==
  \E i \in 1..(Len(msg) - Len(needle) + 1) :
    SubSeq(msg, i, i + Len(needle) - 1) = needle

\* `Server error: ${response.status}`
ServerErrorMessage(status) ==
  <<"S", "e", "r", "v", "e", "r", " ", "e", "r", "r", "o", "r", ":", " ">> \o StatusString(status)

\* `Request timeout after ${options.timeout}ms`, options.timeout = 10000
TimeoutMessage ==
  <<"R", "e", "q", "u", "e", "s", "t", " ", "t", "i", "m", "e", "o", "u",
    "t", " ", "a", "f", "t", "e", "r", " ", "1", "0", "0", "0", "0", "m",
    "s">>

\* the rejection of fetch on a connection failure (message set by the runtime)
NetworkErrorMessage ==
  <<"f", "e", "t", "c", "h", " ", "f", "a", "i", "l", "e", "d">>

\* the rejection of fetch once controller.abort() ran (message set by the runtime)
AbortErrorMessage ==
  <<"T", "h", "i", "s", " ", "o", "p", "e", "r", "a", "t", "i", "o", "n",
    " ", "w", "a", "s", " ", "a", "b", "o", "r", "t", "e", "d">>

\* the message of an error thrown by a caller's operation
OperationErrorMessage ==
  <<"b", "o", "o", "m">>

\* the default predicate of withRetry: () => true
isRetryableAlways(error) == TRUE

\* fetchWithRetry's default predicate
isRetryable(error) ==
  \/ includes(error.msg, <<"f", "e", "t", "c", "h">>)
  \/ includes(error.msg, <<"n", "e", "t", "w", "o", "r", "k">>)
  \/ includes(error.msg, <<"t", "i", "m", "e", "o", "u", "t">>)
  \/ includes(error.msg, <<"E", "C", "O", "N", "N", "R", "E", "S", "E", "T">>)
  \/ includes(error.msg, <<"E", "T", "I", "M", "E", "D", "O", "U", "T">>)

\* options.isRetryable as configured for the call
Retryable(o, error) ==
  CASE o.pred = "always" -> isRetryableAlways(error)
    [] o.pred = "never" -> FALSE
    [] o.pred = "fetchDefault" -> isRetryable(error)

RECURSIVE Pow(_, _)
Pow(b, e) == IF e = 0 THEN 1 ELSE b * Pow(b, e - 1)

Min(a, b) == IF a <= b THEN a ELSE b

InitialDelay == 4        \* largest options.initialDelay used in the model
MaxDelay == 6            \* options.maxDelay used in the model
BackoffMultiplier == 2   \* DEFAULT_OPTIONS.backoffMultiplier
RandomSteps == 4         \* Math.random() takes the values rnd / RandomSteps
MaxRetriesBound == 2     \* largest options.maxRetries explored

\* calculateDelay without Math.min(delay, options.maxDelay)
calculateDelayUncapped(attempt, o, rnd) ==
  LET delay == o.initialDelay * Pow(o.backoffMultiplier, attempt)
  IN IF o.jitter
       THEN (2 * delay * (4 * RandomSteps + rnd) + 4 * RandomSteps)
              \div (8 * RandomSteps)
       ELSE delay

\* calculateDelay: Math.round(min(initialDelay * multiplier^attempt, maxDelay)
\* * (1 + Math.random() * 0.25)), or without the factor when jitter is off
calculateDelay(attempt, o, rnd) ==
  LET delay == Min(o.initialDelay * Pow(o.backoffMultiplier, attempt), o.maxDelay)
  IN IF o.jitter
       THEN (2 * delay * (4 * RandomSteps + rnd) + 4 * RandomSteps)
              \div (8 * RandomSteps)
       ELSE delay

\* an off-by-one last-attempt test
isLastAttemptEarly(attempt, o) == attempt + 1 >= o.maxRetries

\* isLastAttempt = attempt === options.maxRetries
isLastAttempt(attempt, o) == attempt = o.maxRetries

\* a retry decision that ignores options.isRetryable
shouldRetryAnyError(attempt, o, error) == ~isLastAttempt(attempt, o)

\* shouldRetry = !isLastAttempt && options.isRetryable(lastError)
shouldRetry(attempt, o, error) ==
  ~isLastAttempt(attempt, o) /\ Retryable(o, error)

NoError == [msg |-> <<>>, at |-> 0, cause |-> "none"]
Error(msg, at, cause) == [msg |-> msg, at |-> at, cause |-> cause]

DefaultOptions ==
  [kind |-> "op", maxRetries |-> 0, pred |-> "always", jitter |-> FALSE,
   initialDelay |-> InitialDelay, maxDelay |-> MaxDelay,
   backoffMultiplier |-> BackoffMultiplier]

IdleCall ==
  [pc |-> "idle", attempt |-> 0, invocations |-> 0, sleeps |-> 0, slept |-> 0,
   lastError |-> NoError, thrown |-> NoError, status |-> 0]

RetryInit ==
  /\ opts = DefaultOptions
  /\ rt = IdleCall
  /\ retryLog = <<>>
  /\ inflight = {}

(***************************************************************************)
(* lib/abuse-monitor and lib/upstash-rest: the rate tracker and its Redis  *)
(* store.  User-Agent values and addresses are character sequences; the    *)
(* endpoints and slugs of the model need no sanitizing.                    *)
(***************************************************************************)
MaxRequests == 3     \* trackAbuseRequest calls explored, identities varying
MaxTraffic == 3      \* trackAbuseRequest calls explored, time passing
TickSeconds == 50    \* seconds the clock advances between two requests
MaxAbuseTicks == 2   \* such advances explored
MaxCounted == 2      \* trackAbuseRequest calls explored, callers and targets varying

WINDOW_SECONDS == [oneMinute |-> 60, fiveMinutes |-> 300, oneHour |-> 3600]
ExpirePadSeconds == 30      \* windowSec + 30
DedupWindowSeconds == 1800  \* dedupWindowSeconds: 1800

UpperCase == <<"A", "B", "C", "D", "E", "F", "G", "H", "I", "J", "K", "L", "M",
               "N", "O", "P", "Q", "R", "S", "T", "U", "V", "W", "X", "Y", "Z">>
LowerCase == <<"a", "b", "c", "d", "e", "f", "g", "h", "i", "j", "k", "l", "m",
               "n", "o", "p", "q", "r", "s", "t", "u", "v", "w", "x", "y", "z">>

\* the folding a pattern's i flag applies to the tested string
toLowerCase(str) ==
  [i \in 1..Len(str) |->
     IF \E j \in DOMAIN UpperCase : UpperCase[j] = str[i]
       THEN LowerCase[CHOOSE j \in DOMAIN UpperCase : UpperCase[j] = str[i]]
       ELSE str[i]]

\* each pattern is the set of its alternatives, folded to lower case
KNOWN_UA_REGEX ==
  << {<<"f", "a", "c", "i", "l", "a", "b", "o">>},
     {<<"c", "f", "n", "e", "t", "w", "o", "r", "k">>},
     {<<"c", "a", "l", "e", "n", "d", "a", "r">>},
     {<<"i", "c", "a", "l", "e", "n", "d", "a", "r">>},
     {<<"i", "p", "h", "o", "n", "e">>, <<"i", "p", "a", "d">>,
      <<"i", "o", "s">>},
     {<<"a", "p", "p", "l", "e", "c", "o", "r", "e", "m", "e", "d", "i", "a">>},
     {<<"m", "o", "z", "i", "l", "l", "a">>},
     {<<"m", "a", "c", " ", "o", "s", " ", "x">>} >>

isKnownUserAgent(ua) ==
  LET folded == toLowerCase(ua) IN
  \E p \in DOMAIN KNOWN_UA_REGEX :
    \E alternative \in KNOWN_UA_REGEX[p] : includes(folded, alternative)

UserAgents ==
  { <<"F", "a", "c", "i", "l", "A", "b", "o", "/", "2">>,
    <<"c", "u", "r", "l", "/", "8">> }
Addresses ==
  { <<"1", "0", ".", "0", ".", "0", ".", "1">>,
    <<"1", "0", ".", "0", ".", "0", ".", "2">> }
Endpoints == {"calendars"}
Slugs == {"f1"}
\* the endpoints and slugs the store holds counters for
StoreEndpoints == Endpoints \cup {"results"}
StoreSlugs == Slugs \cup {"ligue1"}

\* sha256(input).digest('hex').slice(0, 16): the digests of the inputs of
\* the model, which do not collide
Digests ==
  [input \in Addresses \cup UserAgents |->
     CASE input = <<"1", "0", ".", "0", ".", "0", ".", "1">>
            -> "f3d5b2ad4dd7b6d5"
       [] input = <<"1", "0", ".", "0", ".", "0", ".", "2">>
            -> "1437010dd5357bb8"
       [] input = <<"F", "a", "c", "i", "l", "A", "b", "o", "/", "2">>
            -> "6a0c5d3be8c1f2a9"
       [] input = <<"c", "u", "r", "l", "/", "8">>
            -> "b07e4c12d9a355e0"]

hashShort(input) == Digests[input]

Modes == {"observe", "enforce"}

\* ABUSE_MONITOR_MODE
getMode(raw) == IF raw = "enforce" THEN "enforce" ELSE "observe"

\* the values getThreshold finds for ABUSE_SPIKE_GLOBAL_1M,
\* ABUSE_BURST_IP_SOFT_1M, ABUSE_BURST_IP_HARD_1M, ABUSE_SPIKE_UNKNOWN_UA_1M
AbuseThresholds ==
  { [spikeGlobal1m |-> 3, burstIpSoft1m |-> 2, burstIpHard1m |-> 3,
     spikeUnknownUa1m |-> 3],
    [spikeGlobal1m |-> 3, burstIpSoft1m |-> 2, burstIpHard1m |-> 3,
     spikeUnknownUa1m |-> 4],
    [spikeGlobal1m |-> 3, burstIpSoft1m |-> 1, burstIpHard1m |-> 2,
     spikeUnknownUa1m |-> 2],
    [spikeGlobal1m |-> 2, burstIpSoft1m |-> 2, burstIpHard1m |-> 3,
     spikeUnknownUa1m |-> 4] }

AbuseEnvs ==
  { [ABUSE_MONITOR_MODE |-> m, upstash |-> u, thresholds |-> th] :
      m \in {"unset", "enforce"}, u \in BOOLEAN, th \in AbuseThresholds }

\* the deployments whose traffic is followed over time: the store is
\* configured and the mode is the default one
TrafficEnvs ==
  {e \in AbuseEnvs : e.upstash /\ e.ABUSE_MONITOR_MODE = "unset"}

\* the deployment whose counters are followed: the store is configured and
\* two requests within a minute make a spike
CounterEnvs == {e \in TrafficEnvs : e.thresholds.spikeGlobal1m = 2}

isUpstashConfigured(e) == e.upstash

buildCounterKey(kind, endpoint, windowSec, token) ==
  <<kind, endpoint, windowSec, token>>

buildTopKey(kind, endpoint) ==
  <<kind, endpoint, WINDOW_SECONDS.fiveMinutes>>

trackWindows ==
  <<WINDOW_SECONDS.oneMinute, WINDOW_SECONDS.fiveMinutes,
    WINDOW_SECONDS.oneHour>>

CounterKeys ==
  UNION { {buildCounterKey("global", ep, trackWindows[w], "")}
          \cup {buildCounterKey("slug", ep, trackWindows[w], s) :
                  s \in StoreSlugs}
          \cup {buildCounterKey("ip", ep, trackWindows[w], hashShort(a)) :
                  a \in Addresses}
          \cup {buildCounterKey("ua", ep, trackWindows[w], hashShort(u)) :
                  u \in UserAgents} :
          ep \in StoreEndpoints, w \in DOMAIN trackWindows }
TopKeys ==
  {buildTopKey(kind, ep) : kind \in {"topip", "topua"}, ep \in StoreEndpoints}
Members == {hashShort(x) : x \in Addresses \cup UserAgents}
dedupKey(endpoint, slug, ipHash) == <<"abuse", endpoint, slug, ipHash>>
lockKey(key) == <<"alert-lock">> \o key
DedupKeys ==
  {dedupKey(ep, s, hashShort(a)) :
     ep \in StoreEndpoints, s \in StoreSlugs, a \in Addresses}
LockKeys == {lockKey(k) : k \in DedupKeys}

\* values of a Redis reply as the client sees them
Number(n) == [type |-> "number", n |-> n, text |-> ""]
StringValue(text) == [type |-> "string", n |-> 0, text |-> text]
NullValue == [type |-> "null", n |-> 0, text |-> ""]
Undefined == [type |-> "undefined", n |-> 0, text |-> ""]
ErrorItem == [type |-> "object", n |-> 0, text |-> ""]  \* { error: ... }

Max(a, b) == IF a >= b THEN a ELSE b

\* no textual reply of the model is numeric
toInt(value) == IF value.type = "number" THEN Max(0, value.n) ELSE 0

\* the server side of the store: a key is gone once its expiry is reached
AbsentKey == [n |-> 0, exp |-> 0]
Live(e, t) == e.n > 0 /\ (e.exp = 0 \/ t < e.exp)
AbsentSet == [scores |-> [m \in Members |-> 0], exp |-> 0]
LiveSet(z, t) == (\E m \in Members : z.scores[m] > 0) /\ (z.exp = 0 \/ t < z.exp)

\* one command run by the server at time t; SET key value EX ttl NX sets
\* the key and replies OK when the key is absent, and replies null when
\* the key is held
RedisCommand(db, c, t) ==
  CASE c.op = "INCR" ->
         LET v == db.counters[c.key]
             n == IF Live(v, t) THEN v.n + 1 ELSE 1
             exp == IF Live(v, t) THEN v.exp ELSE 0 IN
         [db |-> [db EXCEPT !.counters[c.key] = [n |-> n, exp |-> exp]],
          result |-> Number(n)]
    [] c.op = "EXPIRE" ->
         IF c.key[1] \in {"topip", "topua"}
           THEN [db |-> [db EXCEPT !.leaderboards[c.key].exp = t + c.arg],
                 result |-> Number(1)]
           ELSE [db |-> [db EXCEPT !.counters[c.key].exp = t + c.arg],
                 result |-> Number(1)]
    [] c.op = "ZINCRBY" ->
         LET z == IF LiveSet(db.leaderboards[c.key], t)
                    THEN db.leaderboards[c.key] ELSE AbsentSet
             score == z.scores[c.member] + c.arg IN
         [db |-> [db EXCEPT !.leaderboards[c.key] =
                    [z EXCEPT !.scores[c.member] = score]],
          result |-> Number(score)]
    [] c.op = "SET_EX_NX" ->
         IF t < db.locks[c.key]
           THEN [db |-> db, result |-> NullValue]
           ELSE [db |-> [db EXCEPT !.locks[c.key] = t + c.arg],
                 result |-> StringValue("OK")]

\* the commands run in order, the first half before the second; result i
\* is the reply to command i
RECURSIVE RedisPipeline(_, _, _)
RedisPipeline(db, commands, t) ==
  IF commands = <<>>
    THEN [db |-> db, results |-> <<>>]
  ELSE IF Len(commands) = 1
    THEN LET only == RedisCommand(db, commands[1], t) IN
         [db |-> only.db, results |-> <<only.result>>]
  ELSE LET half == Len(commands) \div 2
           first == RedisPipeline(db, SubSeq(commands, 1, half), t)
           second == RedisPipeline(first.db,
                       SubSeq(commands, half + 1, Len(commands)), t) IN
       [results |-> first.results \o second.results, db |-> second.db]

\* what may become of the POST to {url}/pipeline: the results of the
\* commands, a payload that is no array, an array of { error } items for
\* commands the store refused, a response that is not ok, no response
PipelineReplies == {"results", "unparsed", "errors", "http_error", "lost"}

\* executeUpstashPipeline: null when the response is not ok or the call
\* throws, the normalized array otherwise ([] for an unexpected payload)
executeUpstashPipeline(e, db, commands, t, reply) ==
  IF ~isUpstashConfigured(e)
    THEN [db |-> db, isNull |-> TRUE, results |-> <<>>]
    ELSE LET done == RedisPipeline(db, commands, t) IN
         CASE reply = "results" ->
                [db |-> done.db, isNull |-> FALSE, results |-> done.results]
           [] reply = "unparsed" ->
                [db |-> done.db, isNull |-> FALSE, results |-> <<>>]
           [] reply = "errors" ->
                [db |-> db, isNull |-> FALSE,
                 results |-> [i \in DOMAIN commands |-> ErrorItem]]
           [] reply = "http_error" ->
                [db |-> db, isNull |-> TRUE, results |-> <<>>]
           [] reply = "lost" ->
                [db |-> done.db, isNull |-> TRUE, results |-> <<>>]

executeUpstashCommand(e, db, command, t, reply) ==
  LET r == executeUpstashPipeline(e, db, <<command>>, t, reply) IN
  [db |-> r.db,
   result |-> IF r.isNull \/ Len(r.results) = 0 THEN NullValue
              ELSE r.results[1]]

Command(op, key, arg, member) ==
  [op |-> op, key |-> key, arg |-> arg, member |-> member]

\* acquireDedupLock: SET alert-lock:{key} {now} EX ttlSeconds NX
acquireDedupLock(e, db, key, ttlSeconds, t, reply) ==
  LET r == executeUpstashCommand(e, db,
             Command("SET_EX_NX", lockKey(key), ttlSeconds, ""), t, reply) IN
  [db |-> r.db,
   acquired |-> IF r.result = NullValue THEN TRUE
                ELSE r.result.type = "string" /\ r.result.text = "OK"]

\* what may become of the SMTP dialogue, ALERT_* being set or not
SmtpOutcomes == {"missing_email_config", "accepted", "smtp_error"}

\* sendAlertEmail with a dedupKey
sendAlertEmail(e, db, key, dedupWindowSeconds, t, reply, smtp) ==
  IF smtp = "missing_email_config"
    THEN [db |-> db, sent |-> FALSE, reason |-> "missing_email_config"]
    ELSE LET lock == acquireDedupLock(e, db, key, dedupWindowSeconds, t, reply) IN
         IF ~lock.acquired
           THEN [db |-> lock.db, sent |-> FALSE, reason |-> "dedup_lock_active"]
           ELSE IF smtp = "accepted"
             THEN [db |-> lock.db, sent |-> TRUE, reason |-> "none"]
             ELSE [db |-> lock.db, sent |-> FALSE, reason |-> "smtp_error"]

notifyCriticalAbuse(e, db, endpoint, slug, ipHash, t, reply, smtp) ==
  sendAlertEmail(e, db, dedupKey(endpoint, slug, ipHash), DedupWindowSeconds,
                 t, reply, smtp)

\* the commands of one window with EXPIRE at the end of the window
WindowCommandsNoPad(endpoint, slug, ipHash, uaHash, windowSec) ==
  LET globalKey == buildCounterKey("global", endpoint, windowSec, "")
      slugKey == buildCounterKey("slug", endpoint, windowSec, slug)
      ipKey == buildCounterKey("ip", endpoint, windowSec, ipHash)
      uaKey == buildCounterKey("ua", endpoint, windowSec, uaHash) IN
  << Command("INCR", globalKey, 0, ""),
     Command("EXPIRE", globalKey, windowSec, ""),
     Command("INCR", slugKey, 0, ""),
     Command("EXPIRE", slugKey, windowSec, ""),
     Command("INCR", ipKey, 0, ""),
     Command("EXPIRE", ipKey, windowSec, ""),
     Command("INCR", uaKey, 0, ""),
     Command("EXPIRE", uaKey, windowSec, "") >>


\* the commands trackAbuseRequest queues for one window
WindowCommands(endpoint, slug, ipHash, uaHash, windowSec) ==
  LET globalKey == buildCounterKey("global", endpoint, windowSec, "")
      slugKey == buildCounterKey("slug", endpoint, windowSec, slug)
      ipKey == buildCounterKey("ip", endpoint, windowSec, ipHash)
      uaKey == buildCounterKey("ua", endpoint, windowSec, uaHash) IN
  << Command("INCR", globalKey, 0, ""),
     Command("EXPIRE", globalKey, windowSec + ExpirePadSeconds, ""),
     Command("INCR", slugKey, 0, ""),
     Command("EXPIRE", slugKey, windowSec + ExpirePadSeconds, ""),
     Command("INCR", ipKey, 0, ""),
     Command("EXPIRE", ipKey, windowSec + ExpirePadSeconds, ""),
     Command("INCR", uaKey, 0, ""),
     Command("EXPIRE", uaKey, windowSec + ExpirePadSeconds, "") >>

TrackCommands(endpoint, slug, ipHash, uaHash) ==
  LET topIpKey == buildTopKey("topip", endpoint)
      topUaKey == buildTopKey("topua", endpoint) IN
  WindowCommands(endpoint, slug, ipHash, uaHash, trackWindows[1])
  \o WindowCommands(endpoint, slug, ipHash, uaHash, trackWindows[2])
  \o WindowCommands(endpoint, slug, ipHash, uaHash, trackWindows[3])
  \o << Command("ZINCRBY", topIpKey, 1, ipHash),
        Command("EXPIRE", topIpKey,
                WINDOW_SECONDS.fiveMinutes + ExpirePadSeconds, ""),
        Command("ZINCRBY", topUaKey, 1, uaHash),
        Command("EXPIRE", topUaKey,
                WINDOW_SECONDS.fiveMinutes + ExpirePadSeconds, "") >>

\* index[`${kind}:${windowSec}s`]: the position of that counter's INCR
index(commands, kind, windowSec) ==
  CHOOSE i \in DOMAIN commands :
    /\ commands[i].op = "INCR"
    /\ commands[i].key[1] = kind
    /\ commands[i].key[3] = windowSec

\* results[i], undefined beyond the end of the array
At(results, i) == IF i \in DOMAIN results THEN results[i] ELSE Undefined

critical(global1m, ip1m, ua1m, knownUA, th) ==
  \/ global1m >= th.spikeGlobal1m
  \/ ip1m >= th.burstIpHard1m
  \/ (~knownUA /\ ua1m >= th.spikeUnknownUa1m)

\* a warning that needs the unknown-UA count to reach half the threshold
\* without rounding
warningExactHalf(global1m, ip1m, ua1m, knownUA, th) ==
  /\ ~critical(global1m, ip1m, ua1m, knownUA, th)
  /\ (ip1m >= th.burstIpSoft1m \/ 2 * ua1m >= th.spikeUnknownUa1m)

\* Math.floor(spikeUnknownUa1m * 0.5) of a whole threshold
warning(global1m, ip1m, ua1m, knownUA, th) ==
  /\ ~critical(global1m, ip1m, ua1m, knownUA, th)
  /\ (ip1m >= th.burstIpSoft1m \/ ua1m >= th.spikeUnknownUa1m \div 2)

\* a block that does not look at the User-Agent
blockedAnyUserAgent(mode, ip1m, ua1m, knownUA, th) ==
  /\ mode = "enforce"
  /\ (ip1m >= th.burstIpHard1m \/ ua1m >= th.spikeUnknownUa1m)

blocked(mode, ip1m, ua1m, knownUA, th) ==
  /\ mode = "enforce"
  /\ ~knownUA
  /\ (ip1m >= th.burstIpHard1m \/ ua1m >= th.spikeUnknownUa1m)

HeaderNames ==
  {"X-FacilAbo-Abuse-Mode", "X-FacilAbo-Abuse-Provider",
   "X-FacilAbo-Abuse-Window-1m", "X-FacilAbo-Abuse-Window-5m",
   "X-FacilAbo-Abuse-Severity"}

\* headers that leave the provider out
BaseHeadersModeOnly(mode, provider) ==
  [names |-> {"X-FacilAbo-Abuse-Mode"},
   mode |-> mode, provider |-> "absent", window1m |-> 0, window5m |-> 0,
   severity |-> "absent"]

\* the headers set before the counters are read
BaseHeaders(mode, provider) ==
  [names |-> {"X-FacilAbo-Abuse-Mode", "X-FacilAbo-Abuse-Provider"},
   mode |-> mode, provider |-> provider, window1m |-> 0, window5m |-> 0,
   severity |-> "absent"]

NoMetrics ==
  [present |-> FALSE, isKnownUA |-> FALSE, global1m |-> 0, global5m |-> 0,
   ip1m |-> 0, ua1m |-> 0]

NoRequest == [ip |-> <<>>, ua |-> <<>>, endpoint |-> "", slug |-> ""]

NoDecision ==
  [returned |-> FALSE, req |-> NoRequest, mode |-> "observe",
   provider |-> "disabled", blocked |-> FALSE, reason |-> "none",
   headers |-> BaseHeaders("observe", "disabled"), metrics |-> NoMetrics,
   alert |-> "none", results |-> "none"]

\* an early return that blocks in 'enforce' mode
EarlyDecisionFailClosed(req, mode, provider) ==
  [returned |-> TRUE, req |-> req, mode |-> mode, provider |-> provider,
   blocked |-> mode = "enforce", reason |-> "none",
   headers |-> BaseHeaders(mode, provider), metrics |-> NoMetrics,
   alert |-> "none",
   results |-> IF provider = "disabled" THEN "none" ELSE "null"]

\* return { mode, provider, blocked: false, headers }: the return of a
\* call whose store is not configured or whose pipeline call gave null
EarlyDecision(req, mode, provider) ==
  [returned |-> TRUE, req |-> req, mode |-> mode, provider |-> provider,
   blocked |-> FALSE, reason |-> "none",
   headers |-> BaseHeaders(mode, provider), metrics |-> NoMetrics,
   alert |-> "none",
   results |-> IF provider = "disabled" THEN "none" ELSE "null"]

\* trackAbuseRequest(req, {endpoint, slug}) at store time t, up to the
\* alert: the store it leaves and the AbuseDecision it will return, kept
\* with what the call got from executeUpstashPipeline ("none" when it made
\* no pipeline call)
trackAbuseRequest(e, db, req, t, reply) ==
  LET mode == getMode(e.ABUSE_MONITOR_MODE)
      provider == IF isUpstashConfigured(e) THEN "upstash" ELSE "disabled"
      ipHash == hashShort(req.ip)
      uaHash == hashShort(req.ua)
      knownUA == isKnownUserAgent(req.ua)
      early == EarlyDecision(req, mode, provider)
      commands == TrackCommands(req.endpoint, req.slug, ipHash, uaHash)
      pipeline == executeUpstashPipeline(e, db, commands, t, reply)
      global1m == toInt(At(pipeline.results,
                           index(commands, "global", WINDOW_SECONDS.oneMinute)))
      global5m == toInt(At(pipeline.results,
                           index(commands, "global", WINDOW_SECONDS.fiveMinutes)))
      ip1m == toInt(At(pipeline.results,
                       index(commands, "ip", WINDOW_SECONDS.oneMinute)))
      ua1m == toInt(At(pipeline.results,
                       index(commands, "ua", WINDOW_SECONDS.oneMinute)))
      th == e.thresholds
      isCritical == critical(global1m, ip1m, ua1m, knownUA, th)
      isWarning == warning(global1m, ip1m, ua1m, knownUA, th)
      isBlocked == blocked(mode, ip1m, ua1m, knownUA, th) IN
  IF provider = "disabled"
    THEN [db |-> db, decision |-> early]
  ELSE IF pipeline.isNull
    THEN [db |-> pipeline.db, decision |-> early]
  ELSE
    [db |-> pipeline.db,
     decision |->
       [returned |-> ~isCritical, req |-> req, mode |-> mode,
        provider |-> provider, blocked |-> isBlocked,
        reason |-> IF isBlocked THEN "rate_limit_exceeded" ELSE "none",
        headers |->
          [BaseHeaders(mode, provider) EXCEPT
             !.names = @ \cup {"X-FacilAbo-Abuse-Window-1m",
                               "X-FacilAbo-Abuse-Window-5m",
                               "X-FacilAbo-Abuse-Severity"},
             !.window1m = global1m, !.window5m = global5m,
             !.severity = IF isCritical THEN "critical"
                          ELSE IF isWarning THEN "warning" ELSE "normal"],
        metrics |->
          [present |-> TRUE, isKnownUA |-> knownUA, global1m |-> global1m,
           global5m |-> global5m, ip1m |-> ip1m, ua1m |-> ua1m],
        alert |-> IF isCritical THEN "pending" ELSE "none",
        results |-> "array"]]

AbuseInit ==
  /\ env \in IF underTest = "abuse" THEN AbuseEnvs
             ELSE IF underTest = "traffic" THEN TrafficEnvs
             ELSE IF underTest = "counters" THEN CounterEnvs
             ELSE {CHOOSE e \in AbuseEnvs :
                     e.ABUSE_MONITOR_MODE = "unset" /\ ~e.upstash}
  /\ counters = [k \in CounterKeys |-> AbsentKey]
  /\ leaderboards = [k \in TopKeys |-> AbsentSet]
  /\ locks = [k \in LockKeys |-> 0]
  /\ emails = [k \in DedupKeys |-> <<>>]
  /\ tracked = 0
  /\ decision = NoDecision
  /\ arrivals = <<>>

(***************************************************************************)
(* lib/ics-transforms and the calendar metadata route.  A calendar is the  *)
(* sequence of its characters; CR, LF and TAB stand for the control        *)
(* characters.  Positions count from 1, so that 0 is the "not found" of    *)
(* indexOf.  Instants are in seconds since the epoch: no DTSTART or DTEND  *)
(* has a fraction of a second.                                             *)
(***************************************************************************)
MaxFragments == 2   \* VEVENT fragments in a calendar
MaxSpanDays == 2    \* days between the DTSTART and the DTEND dates
TimezoneOffsets == {0, 60}   \* UTC, and one hour east of it

CR == "<CR>"
LF == "<LF>"
TAB == "<TAB>"
Whitespace == {" ", TAB, CR, LF}   \* what \s and trim() take as white space
LineBreaks == {CR, LF}             \* what . does not match without the s flag

\* str has pat at position i
startsAt(str, pat, i) ==
  /\ i >= 1
  /\ i + Len(pat) - 1 <= Len(str)
  /\ \A k \in 1..Len(pat) : str[i + k - 1] = pat[k]

\* String.prototype.indexOf(pat, from)
indexOf(str, pat, from) ==
  LET hits == {i \in from..(Len(str) - Len(pat) + 1) : startsAt(str, pat, i)}
  IN IF hits = {} THEN 0 ELSE CHOOSE i \in hits : \A j \in hits : i <= j

\* String.prototype.split(sep)
RECURSIVE split(_, _)
split(str, sep) ==
  LET i == indexOf(str, sep, 1) IN
  IF i = 0
    THEN <<str>>
    ELSE <<SubSeq(str, 1, i - 1)>>
           \o split(SubSeq(str, i + Len(sep), Len(str)), sep)

\* str without the characters whose positions are in del (a replace by '')
RECURSIVE Without(_, _, _, _)
Without(str, del, lo, hi) ==
  IF lo > hi THEN <<>>
  ELSE IF lo = hi THEN IF lo \in del THEN <<>> ELSE <<str[lo]>>
  ELSE Without(str, del, lo, (lo + hi) \div 2)
         \o Without(str, del, ((lo + hi) \div 2) + 1, hi)

\* .replace(/\r?\n[ \t]/g, ''): a folded line is joined to the line before
unfold(str) ==
  LET folds == {i \in 1..(Len(str) - 1) :
                  str[i] = LF /\ str[i + 1] \in {" ", TAB}}
      del == folds \cup {i + 1 : i \in folds}
               \cup {i - 1 : i \in {f \in folds : f > 1 /\ str[f - 1] = CR}}
  IN IF folds = {} THEN str ELSE Without(str, del, 1, Len(str))

\* .replace(/\r?\n\s*/g, ''): line breaks go, with the white space after them
stripLineBreaks(str) ==
  LET del == {j \in 1..Len(str) :
                \/ str[j] = LF
                \/ str[j] = CR /\ j < Len(str) /\ str[j + 1] = LF
                \/ /\ str[j] \in Whitespace
                   /\ \E i \in 1..(j - 1) :
                        /\ str[i] = LF
                        /\ \A k \in (i + 1)..j : str[k] \in Whitespace}
  IN IF del = {} THEN str ELSE Without(str, del, 1, Len(str))

\* String.prototype.trim
trim(str) ==
  LET solid == {i \in 1..Len(str) : str[i] \notin Whitespace} IN
  IF solid = {} THEN <<>>
  ELSE SubSeq(str, CHOOSE i \in solid : \A j \in solid : i <= j,
                   CHOOSE i \in solid : \A j \in solid : i >= j)

toUpperCase(str) ==
  [i \in 1..Len(str) |->
     IF \E j \in DOMAIN LowerCase : LowerCase[j] = str[i]
       THEN UpperCase[CHOOSE j \in DOMAIN LowerCase : LowerCase[j] = str[i]]
       ELSE str[i]]

isDigits(str) ==
  \A i \in 1..Len(str) : \E d \in DOMAIN DigitChar : DigitChar[d] = str[i]

\* parseInt(str, 10) of a run of digits
RECURSIVE parseInt(_)
parseInt(str) ==
  IF str = <<>> THEN 0
  ELSE parseInt(SubSeq(str, 1, Len(str) - 1)) * 10
         + (CHOOSE d \in 0..9 : DigitChar[d + 1] = str[Len(str)])

BEGIN_VEVENT == <<"B", "E", "G", "I", "N", ":", "V", "E", "V", "E", "N", "T">>
END_VEVENT == <<"E", "N", "D", ":", "V", "E", "V", "E", "N", "T">>
SUMMARY == <<"S", "U", "M", "M", "A", "R", "Y">>
MICROSOFT_ALLDAY ==
  <<"X", "-", "M", "I", "C", "R", "O", "S", "O", "F", "T", "-", "C", "D",
    "O", "-", "A", "L", "L", "D", "A", "Y", "E", "V", "E", "N", "T", ":",
    "T", "R", "U", "E">>
VALUE_DATE == <<";", "V", "A", "L", "U", "E", "=", "D", "A", "T", "E">>
MIDNIGHT_TIME == <<"0", "0", "0", "0", "0", "0">>
DTSTART == <<"D", "T", "S", "T", "A", "R", "T">>
DTEND == <<"D", "T", "E", "N", "D">>

\* days from 1970-01-01 to the given day of the proleptic Gregorian calendar
\* (month counted from 1)
DaysFromCivil(year, month, day) ==
  LET y == IF month <= 2 THEN year - 1 ELSE year
      era == y \div 400
      yoe == y - era * 400
      mp == IF month > 2 THEN month - 3 ELSE month + 9
      doy == ((153 * mp + 2) \div 5) + day - 1
      doe == yoe * 365 + (yoe \div 4) - (yoe \div 100) + doy
  IN era * 146097 + doe - 719468

SecondsPerDay == 86400

\* Date.UTC(year, monthIndex, day, hour, minute, second), monthIndex from 0
DateUTC(year, monthIndex, day, hour, minute, second) ==
  DaysFromCivil(year, monthIndex + 1, day) * SecondsPerDay
    + hour * 3600 + minute * 60 + second

\* new Date(year, monthIndex, day, hour, minute, second): the same wall-clock
\* reading in the process's time zone
DateLocal(year, monthIndex, day, hour, minute, second, tz) ==
  DateUTC(year, monthIndex, day, hour, minute, second) - tz * 60

NoDate == [defined |-> FALSE, time |-> 0]
DateAt(time) == [defined |-> TRUE, time |-> time]

\* /^\d{8}$/
isDateOnlyValue(value) == Len(value) = 8 /\ isDigits(value)

\* /^\d{8}T\d{6}Z?$/
isDateTimeValue(value) ==
  /\ Len(value) \in {15, 16}
  /\ isDigits(SubSeq(value, 1, 8))
  /\ value[9] = "T"
  /\ isDigits(SubSeq(value, 10, 15))
  /\ Len(value) = 16 => value[16] = "Z"

parseIcsDateValueToDate(value, tz) ==
  IF isDateOnlyValue(value)
    THEN DateAt(DateLocal(parseInt(SubSeq(value, 1, 4)),
                          parseInt(SubSeq(value, 5, 6)) - 1,
                          parseInt(SubSeq(value, 7, 8)), 0, 0, 0, tz))
  ELSE IF isDateTimeValue(value)
    THEN LET year == parseInt(SubSeq(value, 1, 4))
             month == parseInt(SubSeq(value, 5, 6)) - 1
             day == parseInt(SubSeq(value, 7, 8))
             hour == parseInt(SubSeq(value, 10, 11))
             minute == parseInt(SubSeq(value, 12, 13))
             second == parseInt(SubSeq(value, 14, 15))
         IN IF value[Len(value)] = "Z"
              THEN DateAt(DateUTC(year, month, day, hour, minute, second))
              ELSE DateAt(DateLocal(year, month, day, hour, minute, second, tz))
  ELSE NoDate

NoToken ==
  [defined |-> FALSE, value |-> <<>>, hasValueDateParam |-> FALSE,
   isDateOnly |-> FALSE, isMidnightValue |-> FALSE, parsedDate |-> NoDate]

\* where `${propertyName}([^:]*):([^\r\n]+)` first matches, 0 when it
\* matches nowhere
dateTokenStart(eventContent, propertyName) ==
  LET colonAfter(s) == indexOf(eventContent, <<":">>, s + Len(propertyName))
      hits == {s \in 1..Len(eventContent) :
                 /\ startsAt(eventContent, propertyName, s)
                 /\ colonAfter(s) # 0
                 /\ colonAfter(s) < Len(eventContent)
                 /\ eventContent[colonAfter(s) + 1] \notin LineBreaks}
  IN IF hits = {} THEN 0 ELSE CHOOSE s \in hits : \A j \in hits : s <= j

\* the end of the run [^\r\n]+ that starts at position from
lineEnd(str, from) ==
  LET breaks == {i \in from..Len(str) : str[i] \in LineBreaks} IN
  IF breaks = {} THEN Len(str)
  ELSE (CHOOSE i \in breaks : \A j \in breaks : i <= j) - 1

parseIcsDateToken(eventContent, propertyName, tz) ==
  LET start == dateTokenStart(eventContent, propertyName)
      colon == indexOf(eventContent, <<":">>, start + Len(propertyName))
      params == toUpperCase(SubSeq(eventContent, start + Len(propertyName),
                                   colon - 1))
      value == trim(SubSeq(eventContent, colon + 1,
                           lineEnd(eventContent, colon + 1)))
      hasValueDateParam ==
        \E i \in 1..Len(params) :
          /\ startsAt(params, VALUE_DATE, i)
          /\ \/ i + Len(VALUE_DATE) > Len(params)
             \/ params[i + Len(VALUE_DATE)] = ";"
      isDateOnly == isDateOnlyValue(value)
      isMidnightTime ==
        isDateTimeValue(value) /\ SubSeq(value, 10, 15) = MIDNIGHT_TIME
  IN IF start = 0 THEN NoToken
     ELSE [defined |-> TRUE, value |-> value,
           hasValueDateParam |-> hasValueDateParam,
           isDateOnly |-> isDateOnly,
           isMidnightValue |-> isDateOnly \/ isMidnightTime,
           parsedDate |-> parseIcsDateValueToDate(value, tz)]

NoSummaryMatch == [matched |-> FALSE, group |-> <<>>]

\* (?:\r?\n(?! )|\r?\n$) matches at position p: a line break that no space
\* follows (the end of the text is such a place)
summaryBreakAt(str, p) ==
  \/ /\ p <= Len(str)
     /\ str[p] = LF
     /\ (p + 1 > Len(str) \/ str[p + 1] # " ")
  \/ /\ p < Len(str)
     /\ str[p] = CR
     /\ str[p + 1] = LF
     /\ (p + 2 > Len(str) \/ str[p + 2] # " ")

\* eventContent.match(/SUMMARY[^:]*:(.+?)(?:\r?\n(?! )|\r?\n$)/s): with the
\* s flag the group may run over line breaks; it has at least one character
\* and stops before the first line break after that character
matchSummary(eventContent) ==
  LET colonAfter(s) == indexOf(eventContent, <<":">>, s + Len(SUMMARY))
      ends(s) == {e \in (colonAfter(s) + 1)..Len(eventContent) :
                    summaryBreakAt(eventContent, e + 1)}
      hits == {s \in 1..Len(eventContent) :
                 /\ startsAt(eventContent, SUMMARY, s)
                 /\ colonAfter(s) # 0
                 /\ ends(s) # {}}
  IN IF hits = {} THEN NoSummaryMatch
     ELSE LET s == CHOOSE h \in hits : \A j \in hits : h <= j
              e == CHOOSE h \in ends(s) : \A j \in ends(s) : h <= j
          IN [matched |-> TRUE,
              group |-> SubSeq(eventContent, colonAfter(s) + 1, e)]

\* the body of the loop of parseIcsEvents: the events one block contributes
parseEventBlock(block, tz) ==
  LET endIndex == indexOf(block, END_VEVENT, 1)
      eventContent == unfold(SubSeq(block, 1, endIndex - 1))
      summaryMatch == matchSummary(eventContent)
      summary == IF summaryMatch.matched
                   THEN trim(stripLineBreaks(summaryMatch.group))
                   ELSE <<>>
      dtstart == parseIcsDateToken(eventContent, DTSTART, tz)
      dtend == parseIcsDateToken(eventContent, DTEND, tz)
      hasMicrosoftAllDay ==
        includes(toUpperCase(eventContent), MICROSOFT_ALLDAY)
  IN IF endIndex = 0 THEN <<>>
     ELSE IF ~dtstart.parsedDate.defined THEN <<>>
     ELSE IF summary # <<>>   \* a Date built from numbers is never NaN
       THEN <<[summary |-> summary,
               start |-> dtstart.parsedDate.time,
               end |-> dtend.parsedDate,
               dtstart |-> dtstart,
               dtend |-> dtend,
               hasMicrosoftAllDay |-> hasMicrosoftAllDay]>>
       ELSE <<>>

RECURSIVE parseEventBlocks(_, _, _)
parseEventBlocks(eventBlocks, i, tz) ==
  IF i > Len(eventBlocks) THEN <<>>
  ELSE parseEventBlock(eventBlocks[i], tz)
         \o parseEventBlocks(eventBlocks, i + 1, tz)

\* parseIcsEvents: the text before the first BEGIN:VEVENT is skipped
parseIcsEvents(icsContent, tz) ==
  parseEventBlocks(split(icsContent, BEGIN_VEVENT), 2, tz)

\* detectTimePrecision without its rule 3
detectTimePrecisionNoMarker(event) ==
  IF event.dtstart.hasValueDateParam THEN "day"
  ELSE IF event.dtstart.isDateOnly THEN "day"
  ELSE IF /\ event.end.defined
          /\ event.dtend.isMidnightValue
          /\ event.dtstart.isMidnightValue
          /\ event.end.time - event.start >= SecondsPerDay
          /\ (event.end.time - event.start) % SecondsPerDay = 0
    THEN "day"
  ELSE "time"

\* detectTimePrecision with a rule 4 that takes any span of a day or more
detectTimePrecisionAnySpan(event) ==
  IF event.dtstart.hasValueDateParam THEN "day"
  ELSE IF event.dtstart.isDateOnly THEN "day"
  ELSE IF event.hasMicrosoftAllDay THEN "day"
  ELSE IF /\ event.end.defined
          /\ event.dtend.isMidnightValue
          /\ event.dtstart.isMidnightValue
          /\ event.end.time - event.start >= SecondsPerDay
    THEN "day"
  ELSE "time"

\* detectTimePrecision(event).precision; dayMs is SecondsPerDay here
detectTimePrecision(event) ==
  IF event.dtstart.hasValueDateParam THEN "day"
  ELSE IF event.dtstart.isDateOnly THEN "day"
  ELSE IF event.hasMicrosoftAllDay THEN "day"
  ELSE IF /\ event.end.defined
          /\ event.dtend.isMidnightValue
          /\ event.dtstart.isMidnightValue
          /\ event.end.time - event.start >= SecondsPerDay
          /\ (event.end.time - event.start) % SecondsPerDay = 0
    THEN "day"
  ELSE "time"

RACE_ONLY_F1_SLUG == "f1-races-only"

\* each pattern is the set of its alternatives, folded to lower case
NON_RACE_SESSION_PATTERN ==
  {<<"s", "p", "r", "i", "n", "t">>,
   <<"q", "u", "a", "l", "i", "f">>,
   <<"q", "u", "a", "l", "i", "f", "y", "i", "n", "g">>,
   <<"q", "u", "a", "l", "i", "f", "i", "c", "a", "t", "i", "o", "n">>,
   <<"p", "r", "a", "c", "t", "i", "c", "e">>,
   <<"e", "s", "s", "a", "i">>,
   <<"e", "s", "s", "a", "i", "s">>,
   <<"e", "s", "s", "a", "i", " ", "l", "i", "b", "r", "e">>,
   <<"e", "s", "s", "a", "i", " ", "l", "i", "b", "r", "e", "s">>,
   <<"f", "p", "1">>, <<"f", "p", "2">>, <<"f", "p", "3">>,
   <<"s", "h", "o", "o", "t", "o", "u", "t">>,
   <<"t", "e", "s", "t", "i", "n", "g">>,
   <<"t", "e", "s", "t", " ", "s", "e", "s", "s", "i", "o", "n">>}
RACE_TOKEN == {<<"r", "a", "c", "e">>}
GRAND_PRIX_PATTERN ==
  {<<"g", "r", "a", "n", "d", " ", "p", "r", "i", "x">>, <<"g", "p">>}

\* \w
WordChars ==
  {UpperCase[i] : i \in DOMAIN UpperCase}
    \cup {LowerCase[i] : i \in DOMAIN LowerCase}
    \cup {DigitChar[i] : i \in DOMAIN DigitChar} \cup {"_"}

\* /\b(alternatives)\b/.test(str): every alternative begins and ends with a
\* word character, so \b asks for no word character next to it
testWord(alternatives, str) ==
  \E w \in alternatives : \E i \in 1..Len(str) :
    /\ startsAt(str, w, i)
    /\ (i = 1 \/ str[i - 1] \notin WordChars)
    /\ (i + Len(w) > Len(str) \/ str[i + Len(w)] \notin WordChars)

\* unfolded.match(/(?:^|\r?\n)SUMMARY[^:]*:(.+?)(?:\r?\n|$)/i)?.[1], trimmed;
\* without the s flag the group stays on one line
extractSummary(eventBlock) ==
  LET unfolded == unfold(eventBlock)
      upper == toUpperCase(unfolded)
      colonAfter(s) == indexOf(unfolded, <<":">>, s + Len(SUMMARY))
      valueEnd(s) == lineEnd(unfolded, colonAfter(s) + 1)
      hits == {s \in 1..Len(unfolded) :
                 /\ startsAt(upper, SUMMARY, s)
                 /\ (s = 1 \/ unfolded[s - 1] = LF)
                 /\ colonAfter(s) # 0
                 /\ valueEnd(s) > colonAfter(s)
                 /\ \/ valueEnd(s) = Len(unfolded)
                    \/ unfolded[valueEnd(s) + 1] = LF
                    \/ /\ valueEnd(s) + 2 <= Len(unfolded)
                       /\ unfolded[valueEnd(s) + 1] = CR
                       /\ unfolded[valueEnd(s) + 2] = LF}
  IN IF hits = {} THEN <<>>
     ELSE LET s == CHOOSE h \in hits : \A j \in hits : h <= j
          IN trim(SubSeq(unfolded, colonAfter(s) + 1, valueEnd(s)))

isF1RaceEvent(eventBlock) ==
  LET summary == toLowerCase(extractSummary(eventBlock)) IN
  IF summary = <<>> THEN FALSE
  ELSE IF testWord(NON_RACE_SESSION_PATTERN, summary) THEN FALSE
  ELSE testWord(RACE_TOKEN, summary) \/ testWord(GRAND_PRIX_PATTERN, summary)

\* the matches of /BEGIN:VEVENT[\s\S]*?END:VEVENT\r?\n?/g from position from
\* on; end is the position after the match (lastIndex)
RECURSIVE eventMatches(_, _)
eventMatches(icsContent, from) ==
  LET start == indexOf(icsContent, BEGIN_VEVENT, from)
      close == indexOf(icsContent, END_VEVENT, start + Len(BEGIN_VEVENT))
      afterEnd == close + Len(END_VEVENT)
      afterCr == IF afterEnd <= Len(icsContent) /\ icsContent[afterEnd] = CR
                   THEN afterEnd + 1 ELSE afterEnd
      end == IF afterCr <= Len(icsContent) /\ icsContent[afterCr] = LF
               THEN afterCr + 1 ELSE afterCr
  IN IF start = 0 THEN <<>>
     ELSE IF close = 0 THEN <<>>
     ELSE <<[start |-> start, end |-> end,
             block |-> SubSeq(icsContent, start, end - 1)]>>
            \o eventMatches(icsContent, end)

\* Array.prototype.join('')
RECURSIVE join(_)
join(blocks) ==
  IF blocks = <<>> THEN <<>> ELSE Head(blocks) \o join(Tail(blocks))

\* shouldKeep(eventBlock): the predicate is passed by name
shouldKeepBlock(shouldKeep, eventBlock) ==
  CASE shouldKeep = "isF1RaceEvent" -> isF1RaceEvent(eventBlock)

\* filterEvents that forgets the footer
filterEventsNoFooter(icsContent, shouldKeep) ==
  LET matches == eventMatches(icsContent, 1)
      header == SubSeq(icsContent, 1, matches[1].start - 1)
      kept == SelectSeq(matches, LAMBDA m : shouldKeepBlock(shouldKeep, m.block))
      keptEvents == join([i \in 1..Len(kept) |-> kept[i].block])
  IN IF matches = <<>> THEN icsContent
     ELSE header \o keptEvents

filterEvents(icsContent, shouldKeep) ==
  LET matches == eventMatches(icsContent, 1)
      header == SubSeq(icsContent, 1, matches[1].start - 1)
      footer == SubSeq(icsContent, matches[Len(matches)].end, Len(icsContent))
      kept == SelectSeq(matches, LAMBDA m : shouldKeepBlock(shouldKeep, m.block))
      keptEvents == join([i \in 1..Len(kept) |-> kept[i].block])
  IN IF matches = <<>> THEN icsContent
     ELSE header \o keptEvents \o footer

applyCalendarTransform(slug, icsContent) ==
  IF slug = RACE_ONLY_F1_SLUG
    THEN filterEvents(icsContent, "isF1RaceEvent")
    ELSE icsContent

(***************************************************************************)
(* The calendars the upstream sources return.  A calendar is put together  *)
(* from a header, VEVENT fragments and a footer; the description it is     *)
(* rendered from is kept next to the text, to state the claims.            *)
(***************************************************************************)
TwoDigits(n) == <<DigitChar[(n \div 10) + 1], DigitChar[(n % 10) + 1]>>

\* a DTSTART or DTEND value: day counts the days after 2025-01-31
When(form, day, hour) == [form |-> form, day |-> day, hour |-> hour]
NoWhen == When("none", 0, 0)

DateDigits(day) ==
  IF day = 0 THEN <<"2", "0", "2", "5", "0", "1", "3", "1">>
  ELSE <<"2", "0", "2", "5", "0", "2">> \o TwoDigits(day)

DateValue(when) ==
  IF when.form = "date" THEN DateDigits(when.day)
  ELSE DateDigits(when.day) \o <<"T">> \o TwoDigits(when.hour)
         \o <<"0", "0", "0", "0">>
         \o (IF when.form = "utc" THEN <<"Z">> ELSE <<>>)

Fragment(kind, title, summary, params, start, end, allDay) ==
  [kind |-> kind, title |-> title, summary |-> summary, params |-> params,
   start |-> start, end |-> end, allDay |-> allDay]

EndOfLine(style) == IF style = "lf" THEN <<LF>> ELSE <<CR, LF>>

\* a title whose text goes on a continuation line
FoldedTitle(style) ==
  <<"R", "a", "c", "e", " ">> \o EndOfLine(style) \o <<" ", "o", "n", "e">>

TitleText(f, style) ==
  IF f.title = "folded" THEN FoldedTitle(style) ELSE f.summary

RenderFragment(f, style) ==
  LET eol == EndOfLine(style) IN
  BEGIN_VEVENT \o eol
    \o (IF f.kind = "untitled" THEN <<>>
        ELSE SUMMARY \o <<":">> \o TitleText(f, style) \o eol)
    \o DTSTART \o f.params \o <<":">>
    \o (IF f.kind = "undated" THEN <<"T", "B", "D">> ELSE DateValue(f.start))
    \o eol
    \o (IF f.end.form = "none" THEN <<>>
        ELSE DTEND \o <<":">> \o DateValue(f.end) \o eol)
    \o (IF f.allDay THEN MICROSOFT_ALLDAY \o eol ELSE <<>>)
    \o (IF f.kind = "unterminated" THEN <<>> ELSE END_VEVENT \o eol)

CalendarHeader(style) ==
  <<"B", "E", "G", "I", "N", ":", "V", "C", "A", "L", "E", "N", "D", "A",
      "R">>
    \o EndOfLine(style)
    \o <<"V", "E", "R", "S", "I", "O", "N", ":", "2", ".", "0">>
    \o EndOfLine(style)

CalendarFooter(style) ==
  <<"E", "N", "D", ":", "V", "C", "A", "L", "E", "N", "D", "A", "R">>
    \o EndOfLine(style)

\* another component, standing between two VEVENT fragments
OtherComponent(style) ==
  <<"B", "E", "G", "I", "N", ":", "V", "T", "O", "D", "O">> \o EndOfLine(style)
    \o <<"E", "N", "D", ":", "V", "T", "O", "D", "O">> \o EndOfLine(style)

Separator(doc) == IF doc.separated THEN OtherComponent(doc.style) ELSE <<>>

RECURSIVE RenderFragments(_, _)
RenderFragments(doc, i) ==
  IF i > Len(doc.fragments) THEN <<>>
  ELSE RenderFragment(doc.fragments[i], doc.style)
         \o (IF i < Len(doc.fragments) THEN Separator(doc) ELSE <<>>)
         \o RenderFragments(doc, i + 1)

Render(doc) ==
  CalendarHeader(doc.style) \o RenderFragments(doc, 1)
    \o CalendarFooter(doc.style)

Document(fragments, style, separated) ==
  [fragments |-> fragments, style |-> style, separated |-> separated]

TimedStart == When("utc", 0, 14)

\* the fragments of the calendars that vary the make-up of the fragments
Race == <<"R", "a", "c", "e">>
Sprint == <<"S", "p", "r", "i", "n", "t">>
RaceOne == <<"R", "a", "c", "e", " ", "o", "n", "e">>
PlainFragments ==
  {Fragment("event", "plain", Race, <<>>, TimedStart, NoWhen, FALSE),
   Fragment("event", "plain", Sprint, <<>>, TimedStart, NoWhen, FALSE),
   Fragment("event", "folded", RaceOne, <<>>, TimedStart, NoWhen, FALSE),
   Fragment("unterminated", "plain", Race, <<>>, TimedStart, NoWhen, FALSE),
   Fragment("undated", "plain", Race, <<>>, TimedStart, NoWhen, FALSE),
   Fragment("untitled", "plain", <<>>, <<>>, TimedStart, NoWhen, FALSE),
   Fragment("blank", "plain", <<>>, <<>>, TimedStart, NoWhen, FALSE)}

FragmentLists ==
  UNION {[1..n -> PlainFragments] : n \in 0..MaxFragments}

Layouts == {[style |-> "crlf", separated |-> FALSE],
            [style |-> "crlf", separated |-> TRUE],
            [style |-> "lf", separated |-> FALSE]}

\* the fragments of the calendars that vary the dates of one event
StartParams ==
  {<<>>, <<";", "V", "A", "L", "U", "E", "=", "D", "A", "T", "E">>,
   <<";", "V", "A", "L", "U", "E", "=", "D", "A", "T", "E", "-", "T", "I",
      "M", "E">>}
StartTimes ==
  {When("date", 0, 0)}
    \cup {When(form, 0, hour) : form \in {"local", "utc"}, hour \in {0, 14}}
EndTimes ==
  {NoWhen}
    \cup {When("date", day, 0) : day \in 0..MaxSpanDays}
    \cup {When(form, day, hour) : form \in {"local", "utc"},
                                  day \in 0..MaxSpanDays, hour \in {0, 6}}
DatedFragments ==
  {Fragment("event", "plain", Race, params, start, end, allDay) :
     params \in StartParams, start \in StartTimes, end \in EndTimes,
     allDay \in BOOLEAN}

Calendar(document, tz) == [document |-> document, timezone |-> tz]

Calendars ==
  {Calendar(Document(fragments, layout.style, layout.separated), 0) :
     fragments \in FragmentLists, layout \in Layouts}
    \cup {Calendar(Document(<<f>>, "crlf", FALSE), tz) :
            f \in DatedFragments, tz \in TimezoneOffsets}

EmptyCalendar == Calendar(Document(<<>>, "crlf", FALSE), 0)

NoResult ==
  [slug |-> "none", text |-> <<>>, events |-> <<>>, eventCount |-> 0,
   timePrecision |-> "undefined"]

IcsInit ==
  /\ \E c \in IF underTest = "ics" THEN Calendars ELSE {EmptyCalendar} :
       /\ composed = c.document
       /\ timezone = c.timezone
       /\ icsText = Render(c.document)
  /\ icsResult = NoResult

(***************************************************************************)
(* The calendar proxy route: upsertHeaderProp on the lines of the calendar *)
(***************************************************************************)
MaxLines == 4     \* lines of a calendar given to upsertHeaderProp
MaxUpserts == 2   \* upsertHeaderProp calls in a row

BEGIN_VCALENDAR == <<"B", "E", "G", "I", "N", ":", "V", "C", "A", "L", "E", "N", "D", "A",
      "R">>

\* String.prototype.startsWith
startsWith(str, prefix) == startsAt(str, prefix, 1)

\* lines.findIndex(l => test): the first position of TRUE in hits, 0 if none
findIndex(hits) ==
  IF \A i \in 1..Len(hits) : ~hits[i] THEN 0
  ELSE CHOOSE i \in 1..Len(hits) : hits[i] /\ \A j \in 1..(i - 1) : ~hits[j]

\* upsertHeaderProp that looks for the property in every line
upsertHeaderPropAnywhere(lines, key, value) ==
  LET prefix == key \o <<":">>
      existingIndex ==
        findIndex([i \in 1..Len(lines) |-> startsWith(lines[i], prefix)])
      beginIndex ==
        findIndex([i \in 1..Len(lines) |-> lines[i] = BEGIN_VCALENDAR])
  IN IF existingIndex > 0
       THEN [lines EXCEPT ![existingIndex] = prefix \o value]
       ELSE SubSeq(lines, 1, beginIndex) \o <<prefix \o value>>
              \o SubSeq(lines, beginIndex + 1, Len(lines))

\* upsertHeaderProp that inserts the line without looking for the property
upsertHeaderPropAppends(lines, key, value) ==
  LET beginIndex ==
        findIndex([i \in 1..Len(lines) |-> lines[i] = BEGIN_VCALENDAR])
  IN SubSeq(lines, 1, beginIndex) \o <<key \o <<":">> \o value>>
       \o SubSeq(lines, beginIndex + 1, Len(lines))

\* upsertHeaderProp(lines, key, value); endIndex counts the header's lines
upsertHeaderProp(lines, key, value) ==
  LET headerEnd ==
        findIndex([i \in 1..Len(lines) |-> startsWith(lines[i], BEGIN_VEVENT)])
      endIndex == IF headerEnd = 0 THEN Len(lines) ELSE headerEnd - 1
      header == SubSeq(lines, 1, endIndex)
      rest == SubSeq(lines, endIndex + 1, Len(lines))
      prefix == key \o <<":">>
      existingIndex ==
        findIndex([i \in 1..Len(header) |-> startsWith(header[i], prefix)])
      beginIndex ==
        findIndex([i \in 1..Len(header) |-> header[i] = BEGIN_VCALENDAR])
  IN IF existingIndex > 0
       THEN [header EXCEPT ![existingIndex] = prefix \o value] \o rest
       ELSE SubSeq(header, 1, beginIndex) \o <<prefix \o value>>
              \o SubSeq(header, beginIndex + 1, Len(header)) \o rest

\* the keys the route upserts, and display names
X_WR_CALNAME == <<"X", "-", "W", "R", "-", "C", "A", "L", "N", "A", "M", "E">>
NAME == <<"N", "A", "M", "E">>
HeaderKeys == {X_WR_CALNAME, NAME}
DisplayNames == {<<"F", "1">>, <<"L", "1">>}

\* the lines upstream calendars are made of
CalendarLines ==
  {BEGIN_VCALENDAR,
   <<"V", "E", "R", "S", "I", "O", "N", ":", "2", ".", "0">>,
   <<"N", "A", "M", "E", ":", "O", "l", "d">>,
   <<"X", "-", "W", "R", "-", "C", "A", "L", "N", "A", "M", "E", ":", "O",
      "l", "d">>,
   BEGIN_VEVENT}

LineLists == UNION {[1..n -> CalendarLines] : n \in 0..MaxLines}

RewriteInit ==
  /\ icsLines \in IF underTest = "rewrite" THEN LineLists ELSE {<<>>}
  /\ rewrites = <<>>

(***************************************************************************)
(* The service searches (stations, hospitals, post offices): the query     *)
(* parser of service-search-utils and the geo ranking of the fetchers.     *)
(* Coordinates are whole metres of arc from the point (0, 0), all points   *)
(* lie on the meridian 0, and a radius is written in decimetres            *)
(* (radiusKm * 10000), so that radiusKm * 1000 keeps its fraction.         *)
(***************************************************************************)
MaxRecords == 2       \* records the upstream source holds
MaxSearches == 2      \* requests one function instance handles
MetresPerDegree == 111195   \* earthRadiusMeters * PI / 180, rounded
DmPerKm == 10000      \* decimetres in one kilometre
DmPerMetre == 10
MaxLatitude == 90 * MetresPerDegree
MaxLongitude == 180 * MetresPerDegree
MinRadiusMeters == 500  \* the floor Math.max(500, ...) of the geo searches
MaxUpstreamLimit == 100 \* the cap Math.min(limit * 4, 100)
NoNumber == 0 - 1     \* null / undefined where a number is expected

Services == {"stations", "hospitals", "post-offices"}

\* the options each handler hands to parseServiceSearchParams
ParseOptions(service) ==
  CASE service = "stations" ->
         [defaultLimit |-> 25, maxLimit |-> 50,
          defaultRadiusKm |-> 5 * DmPerKm, maxRadiusKm |-> 25 * DmPerKm]
    [] service = "hospitals" ->
         [defaultLimit |-> 20, maxLimit |-> 50,
          defaultRadiusKm |-> 8 * DmPerKm, maxRadiusKm |-> 30 * DmPerKm]
    [] service = "post-offices" ->
         [defaultLimit |-> 20, maxLimit |-> 50,
          defaultRadiusKm |-> 10 * DmPerKm, maxRadiusKm |-> 50 * DmPerKm]

\* a raw query value that should be a number: absent (undefined or empty),
\* a decimal number ("1"), a number followed by other characters ("1km"), or
\* a text that starts with no number ("abc")
Absent == [kind |-> "absent", n |-> 0]
Num(n) == [kind |-> "number", n |-> n]
Prefixed(n) == [kind |-> "prefixed", n |-> n]
Text == [kind |-> "text", n |-> 0]

\* Number.parseFloat reads the longest prefix that is a number
NaN == [nan |-> TRUE, n |-> 0]
parseFloat(raw) ==
  IF raw.kind \in {"number", "prefixed"} THEN [nan |-> FALSE, n |-> raw.n]
  ELSE NaN

\* .replace(/\s+/g, ' '): every run of white space becomes one space
RECURSIVE collapseSpaces(_)
collapseSpaces(str) ==
  IF str = <<>> THEN <<>>
  ELSE IF str[1] \in Whitespace
    THEN IF Len(str) > 1 /\ str[2] \in Whitespace
           THEN collapseSpaces(Tail(str))
           ELSE <<" ">> \o collapseSpaces(Tail(str))
    ELSE <<str[1]>> \o collapseSpaces(Tail(str))

\* normalizeCity: lower case, accents dropped (the city names used here have
\* none), hyphens to spaces, runs of white space to one space, trimmed
normalizeCity(value) ==
  trim(collapseSpaces(
         [i \in 1..Len(value) |->
            LET c == toLowerCase(value)[i] IN
            IF c = "-" THEN " " ELSE c]))

\* lat.toFixed(3): the latitude in thousandths of a degree, rounded
toFixed3(metres) == (metres * 1000 + MetresPerDegree \div 2) \div MetresPerDegree

NoKey == [mode |-> "none", text |-> <<>>, lat |-> 0, lng |-> 0, radius |-> 0,
          limit |-> 0]

Rejected ==
  [ok |-> FALSE, status |-> 400, retryable |-> FALSE, mode |-> "none",
   cacheKey |-> NoKey, limit |-> 0, radiusKm |-> 0, text |-> <<>>,
   lat |-> 0, lng |-> 0]

parseLimit(rawLimit, options) ==
  IF rawLimit.kind = "absent" THEN options.defaultLimit
  ELSE IF rawLimit.kind = "text" \/ rawLimit.n < 1 \/ rawLimit.n > options.maxLimit
    THEN NoNumber
    ELSE rawLimit.n

parseServiceSearchParams(reqQuery, options) ==
  LET cp == trim(reqQuery.cp)
      city == trim(reqQuery.city)
      parsedLimit == parseLimit(reqQuery.limit, options)
      lat == parseFloat(reqQuery.lat)
      lng == parseFloat(reqQuery.lng)
      radiusKm == IF reqQuery.radius.kind # "absent"
                    THEN parseFloat(reqQuery.radius)
                    ELSE [nan |-> FALSE, n |-> options.defaultRadiusKm]
      Accepted(mode, key, text, radius, la, lo) ==
        [ok |-> TRUE, status |-> 200, retryable |-> FALSE, mode |-> mode,
         cacheKey |-> key, limit |-> parsedLimit, radiusKm |-> radius,
         text |-> text, lat |-> la, lng |-> lo] IN
  IF parsedLimit = NoNumber THEN Rejected
  ELSE IF cp # <<>> THEN
    IF ~(Len(cp) = 5 /\ isDigits(cp)) THEN Rejected
    ELSE Accepted("cp", [NoKey EXCEPT !.mode = "cp", !.text = cp,
                                       !.limit = parsedLimit],
                  cp, options.defaultRadiusKm, 0, 0)
  ELSE IF city # <<>> THEN
    IF Len(city) < 2 THEN Rejected
    ELSE Accepted("city", [NoKey EXCEPT !.mode = "city",
                                         !.text = normalizeCity(city),
                                         !.limit = parsedLimit],
                  city, options.defaultRadiusKm, 0, 0)
  ELSE IF reqQuery.lat.kind # "absent" \/ reqQuery.lng.kind # "absent" THEN
    IF lat.nan \/ lng.nan THEN Rejected
    ELSE IF \/ lat.n < 0 - MaxLatitude \/ lat.n > MaxLatitude
            \/ lng.n < 0 - MaxLongitude \/ lng.n > MaxLongitude THEN Rejected
    ELSE IF radiusKm.nan \/ radiusKm.n <= 0 \/ radiusKm.n > options.maxRadiusKm
      THEN Rejected
    ELSE Accepted("geo", [mode |-> "geo", text |-> <<>>,
                          lat |-> toFixed3(lat.n), lng |-> toFixed3(lng.n),
                          radius |-> radiusKm.n, limit |-> parsedLimit],
                  <<>>, radiusKm.n, lat.n, lng.n)
  ELSE Rejected

\* calculateDistance (haversine) between two points of one meridian: the arc
\* between the latitudes
calculateDistance(lat1, lon1, lat2, lon2) ==
  IF lat2 >= lat1 THEN lat2 - lat1 ELSE lat1 - lat2

\* Math.round(radiusKm * 1000)
MathRound(radiusKm) == (radiusKm + DmPerMetre \div 2) \div DmPerMetre

hasCoordinates(item) == item.latitude # NoNumber /\ item.longitude # NoNumber

withDistance(item, lat, lng) ==
  [item EXCEPT !.distance =
     calculateDistance(lat, lng, item.latitude, item.longitude)]

\* Array.prototype.sort((a, b) => a.distance - b.distance): stable
RECURSIVE sortByDistance(_)
sortByDistance(items) ==
  IF items = <<>> THEN <<>>
  ELSE LET sorted == sortByDistance(SubSeq(items, 1, Len(items) - 1))
           last == items[Len(items)]
           before == Cardinality({i \in 1..Len(sorted) :
                                    sorted[i].distance <= last.distance}) IN
       SubSeq(sorted, 1, before) \o <<last>>
         \o SubSeq(sorted, before + 1, Len(sorted))

slice(items, limit) == SubSeq(items, 1, Min(limit, Len(items)))

\* station-fetcher assignGeoDistance: drop the items without coordinates,
\* give the others their distance, sort
assignGeoDistance(items, lat, lng) ==
  sortByDistance([i \in 1..Len(SelectSeq(items, hasCoordinates)) |->
                    withDistance(SelectSeq(items, hasCoordinates)[i], lat, lng)])

\* what searchStationsNearLocation makes of the upstream's candidates
searchStationsNearLocation(candidates, lat, lng, radiusKm, limit) ==
  LET radiusMeters == Max(MinRadiusMeters, MathRound(radiusKm))
      ranked == assignGeoDistance(candidates, lat, lng)
      near(item) == item.distance <= radiusMeters IN
  slice(SelectSeq(ranked, near), limit)

\* postoffice-fetcher rankByDistance
rankByDistance(items, lat, lng, radiusKm, limit) ==
  LET located == SelectSeq(items, hasCoordinates)
      measured == [i \in 1..Len(located) |-> withDistance(located[i], lat, lng)]
      near(item) == item.distance * DmPerMetre <= radiusKm IN
  slice(sortByDistance(SelectSeq(measured, near)), limit)

\* lib/types withGeoDistance (hospitals): no radius here, the upstream
\* query has it
withGeoDistance(items, lat, lng, limit) ==
  slice(assignGeoDistance(items, lat, lng), limit)

\* the upstream sources: the records they hold, in the order they list them
recordToItem(record) ==
  [latitude |-> record.latitude, longitude |-> record.longitude,
   distance |-> NoNumber]

\* fetchStations('cp is not null', limit, {orderBy}): the nearest first
fetchStations(records, lat, lng, limit) ==
  LET located == assignGeoDistance([i \in 1..Len(records) |->
                                      recordToItem(records[i])], lat, lng)
      unlocated == SelectSeq(records, LAMBDA r : ~hasCoordinates(r))
      listed == [i \in 1..Len(located) |-> recordToItem(located[i])]
                  \o [i \in 1..Len(unlocated) |-> recordToItem(unlocated[i])] IN
  slice(listed, Min(Max(limit, 1), MaxUpstreamLimit))

\* fetchHospitals(within_distance(coord, POINT(lng lat), radiusMeters m), limit)
fetchHospitals(records, lat, lng, radiusMeters, limit) ==
  LET within(r) == /\ hasCoordinates(r)
                   /\ calculateDistance(lat, lng, r.latitude, r.longitude)
                        <= radiusMeters
      found == SelectSeq(records, within) IN
  slice([i \in 1..Len(found) |-> recordToItem(found[i])], limit)

\* fetchAllPostOffices: every record
fetchAllPostOffices(records) ==
  [i \in 1..Len(records) |-> recordToItem(records[i])]

\* the search a handler runs on a cache miss, from the upstream's records
searchNearLocation(service, records, lat, lng, radiusKm, limit) ==
  CASE service = "stations" ->
         searchStationsNearLocation(
           fetchStations(records, lat, lng, Min(limit * 4, MaxUpstreamLimit)),
           lat, lng, radiusKm, limit)
    [] service = "hospitals" ->
         withGeoDistance(
           fetchHospitals(records, lat, lng,
                          Max(MinRadiusMeters, MathRound(radiusKm)),
                          Min(limit * 4, MaxUpstreamLimit)),
           lat, lng, limit)
    [] service = "post-offices" ->
         rankByDistance(fetchAllPostOffices(records), lat, lng, radiusKm, limit)

\* the inputs of the service searches
RecordLatitudes == {NoNumber, 300, 1000, 1001}
Records ==
  {[latitude |-> la, longitude |-> IF la = NoNumber THEN NoNumber ELSE 0] :
     la \in RecordLatitudes}
RecordLists == UNION {[1..n -> Records] : n \in 0..MaxRecords}

QueryPoint == 0      \* a query point, and one 40 m north of it: the same
NearbyPoint == 40    \* latitude once rounded to three decimals
SmallRadiusKm == DmPerKm \div 10   \* radius=0.1
UnitRadiusKm == DmPerKm            \* radius=1
HugeRadiusKm == 51 * DmPerKm       \* radius=51, above every maxRadiusKm

GeoQuery(lat, lng, radius, limit) ==
  [cp |-> <<>>, city |-> <<>>, lat |-> lat, lng |-> lng, radius |-> radius,
   limit |-> limit]

ValidQueries ==
  {GeoQuery(Num(la), Num(0), Num(ra), Num(li)) :
     la \in {QueryPoint, NearbyPoint}, ra \in {SmallRadiusKm, UnitRadiusKm},
     li \in 1..2}

\* a valid query with one parameter made wrong
BadQueries ==
  {GeoQuery(la, Num(0), Num(UnitRadiusKm), Num(1)) :
     la \in {Text, Absent, Prefixed(QueryPoint), Num(MaxLatitude + 1),
             Num(0 - MaxLatitude - 1)}}
  \cup {GeoQuery(Num(QueryPoint), lo, Num(UnitRadiusKm), Num(1)) :
     lo \in {Text, Absent, Num(MaxLongitude + 1), Num(0 - MaxLongitude - 1)}}
  \cup {GeoQuery(Num(QueryPoint), Num(0), ra, Num(1)) :
     ra \in {Text, Prefixed(UnitRadiusKm), Num(0), Num(0 - UnitRadiusKm),
             Num(HugeRadiusKm)}}
  \cup {GeoQuery(Num(QueryPoint), Num(0), Num(UnitRadiusKm), li) :
     li \in {Text, Num(0), Num(51)}}
  \cup {GeoQuery(Absent, Absent, Num(UnitRadiusKm), Num(1))}

Queries == ValidQueries \cup BadQueries

NoSearch ==
  [pc |-> "idle", query |-> GeoQuery(Absent, Absent, Absent, Absent),
   parsed |-> Rejected, status |-> 0, retryable |-> FALSE, body |-> <<>>,
   reads |-> 0, writes |-> 0, fetches |-> 0]

ServiceInit ==
  /\ route \in IF underTest = "geo" THEN Services ELSE {"stations"}
  /\ upstream \in IF underTest = "geo" THEN RecordLists ELSE {<<>>}
  /\ svcCache = {}
  /\ svcReq = NoSearch
  /\ served = 0

(***************************************************************************)
(* The result scrapers (sport-results-scraper, rugby-results-scraper,      *)
(* f1-scraper): the Flashscore feed is text, FS standing for the field     *)
(* separator (the division sign) and VS for the value separator (the not   *)
(* sign); a date is a day number and a time a minute of the day.           *)
(***************************************************************************)
MaxBlocks == 2        \* blocks of a feed drawn from the block variants
MaxLongFeed == 31     \* blocks of the long feed of one repeated match
MinBlockLength == 10  \* matchData.length < 10
MaxResults == 30      \* results.slice(0, 30)
PodiumSize == 3       \* position > 3, podium.slice(0, 3)
MaxTimestampDigits == 13  \* a later timestamp is beyond the Date range
SecondsPerMinute == 60
Today == 9            \* the day the scraper runs
NoTime == 0 - 1       \* time '' of a match without a timestamp

FS == "<FS>"
VS == "<VS>"
\* the field keys of the feed and the names used in it
AA == <<"A", "A">>
AD == <<"A", "D">>
CX == <<"C", "X">>
AF == <<"A", "F">>
AG == <<"A", "G">>
AH == <<"A", "H">>
AB == <<"A", "B">>
ER == <<"E", "R">>
WM == <<"W", "M">>
WN == <<"W", "N">>
AK == <<"A", "K">>
XX == <<"X", "X">>
Lyon == <<"L", "y", "o", "n">>
Nice == <<"N", "i", "c", "e">>
Lens == <<"L", "e", "n", "s">>
Toulouse == <<"T", "o", "u", "l", "o", "u", "s", "e">>
Driver == <<"M", "a", "x">>
RB == <<"R", "B">>

MATCH_DELIMITER == <<"~", "A", "A", FS>>
ValueChar(c) == c # VS /\ c # "~"
DigitCharacter(c) == \E d \in DOMAIN DigitChar : DigitChar[d] = c

\* the characters of str from position i on that satisfy the class named
run(str, i, class) ==
  LET ok(c) == IF class = "digits" THEN DigitCharacter(c) ELSE ValueChar(c)
      stops == {j \in i..Len(str) : ~ok(str[j])}
      stop == IF stops = {} THEN Len(str) + 1
              ELSE CHOOSE j \in stops : \A k \in stops : j <= k IN
  SubSeq(str, i, stop - 1)

\* str.match(/KEY<FS>([^<VS>~]+)/) or, with class "digits", /KEY<FS>(\d+)/:
\* the capture of the leftmost match, <<>> without a match
matchField(str, key, class) ==
  LET prefix == key \o <<FS>>
      hits == {i \in 1..Len(str) :
                 /\ startsAt(str, prefix, i)
                 /\ run(str, i + Len(prefix), class) # <<>>} IN
  IF hits = {} THEN <<>>
  ELSE run(str, (CHOOSE i \in hits : \A j \in hits : i <= j) + Len(prefix),
           class)

\* str.match(/KEY<FS>[^<VS>]*<VS>[^<VS>]*<VS>AF<FS>([^<VS>~]+)/)
matchAfter(str, key) ==
  LET prefix == key \o <<FS>>
      af == AF \o <<FS>>
      nextVS(i) == indexOf(str, <<VS>>, i)
      nameAt(i) ==
        LET first == nextVS(i + Len(prefix))
            second == IF first = 0 THEN 0 ELSE nextVS(first + 1) IN
        IF second = 0 \/ ~startsAt(str, af, second + 1) THEN <<>>
        ELSE run(str, second + 1 + Len(af), "value")
      hits == {i \in 1..Len(str) : startsAt(str, prefix, i) /\ nameAt(i) # <<>>}
  IN IF hits = {} THEN <<>>
     ELSE nameAt(CHOOSE i \in hits : \A j \in hits : i <= j)

\* the team tables of sport-results-types, one alias each
LIGUE1_TEAMS(lower) == IF lower = <<"l", "y", "o", "n">> THEN <<"O", "L">> ELSE <<>>
TOP14_TEAMS(lower) == IF lower = <<"t", "o", "u", "l", "o", "u", "s", "e">> THEN Toulouse ELSE <<>>

normalizeTeamName(raw) ==
  IF LIGUE1_TEAMS(trim(toLowerCase(raw))) # <<>>
    THEN LIGUE1_TEAMS(trim(toLowerCase(raw)))
    ELSE trim(raw)

normalizeRugbyTeamName(raw) ==
  IF TOP14_TEAMS(trim(toLowerCase(raw))) # <<>>
    THEN TOP14_TEAMS(trim(toLowerCase(raw)))
    ELSE trim(raw)

\* fields.round.match(/(\d+)/): the first run of digits
firstDigits(str) ==
  LET starts == {i \in 1..Len(str) : DigitCharacter(str[i])} IN
  IF starts = {} THEN <<>>
  ELSE run(str, CHOOSE i \in starts : \A j \in starts : i <= j, "digits")

NoMatchResult ==
  [id |-> <<>>, index |-> 0, homeTeam |-> <<>>, awayTeam |-> <<>>,
   homeScore |-> 0, awayScore |-> 0, date |-> 0, time |-> NoTime,
   status |-> "finished", matchday |-> <<>>]

\* the body of the loop of parseFlashscoreData / parseFlashscoreRugbyData on
\* one block, `count` results having been pushed: a record, a `continue`, or
\* an exception for the catch
parseMatchBlock(sport, matchData, count) ==
  LET matchId == matchField(matchData, AA, "value")
      timestamp == matchField(matchData, AD, "digits")
      homeFirst == matchField(matchData, CX, "value")
      awayFirst == matchField(matchData, AF, "value")
      homeScore == matchField(matchData, AG, "digits")
      awayScore == matchField(matchData, AH, "digits")
      statusCode == matchField(matchData, AB, "digits")
      round == matchField(matchData, ER, "value")
      homeRaw == IF homeFirst # <<>> THEN homeFirst
                 ELSE matchAfter(matchData, WM)
      awayRaw == IF awayFirst # <<>> THEN awayFirst
                 ELSE matchAfter(matchData, WN)
      homeTeam == IF sport = "rugby" THEN normalizeRugbyTeamName(homeRaw)
                  ELSE normalizeTeamName(trim(homeRaw))
      awayTeam == IF sport = "rugby" THEN normalizeRugbyTeamName(awayRaw)
                  ELSE normalizeTeamName(trim(awayRaw))
      ts == parseInt(timestamp)
      status == IF statusCode = <<>> THEN "finished"
                ELSE IF parseInt(statusCode) = 2 THEN "live"
                ELSE IF parseInt(statusCode) = 1 THEN "scheduled"
                ELSE "finished"
      Skip == [kind |-> "continue", record |-> NoMatchResult] IN
  IF homeScore = <<>> \/ awayScore = <<>> THEN Skip
  ELSE IF Len(timestamp) > MaxTimestampDigits
    THEN [kind |-> "thrown", record |-> NoMatchResult]
  ELSE IF homeTeam = <<>> \/ awayTeam = <<>> THEN Skip
  ELSE [kind |-> "record",
        record |->
          [id |-> matchId, index |-> IF matchId = <<>> THEN count ELSE 0,
           homeTeam |-> homeTeam, awayTeam |-> awayTeam,
           homeScore |-> parseInt(homeScore), awayScore |-> parseInt(awayScore),
           date |-> IF timestamp = <<>> THEN Today ELSE ts \div SecondsPerDay,
           time |-> IF timestamp = <<>> THEN NoTime
                    ELSE (ts % SecondsPerDay) \div SecondsPerMinute,
           status |-> status,
           matchday |-> firstDigits(round)]]

\* the k-th smallest element of a set of numbers
Nth(numbers, k) ==
  CHOOSE i \in numbers : Cardinality({j \in numbers : j <= i}) = k

\* the loop over the blocks that pushes whatever the body computed, skipped
\* blocks included
parseFlashscoreDataKeepAll(sport, data) ==
  LET blocks == split(data, MATCH_DELIMITER)
      pushed == {i \in 1..Len(blocks) : Len(blocks[i]) >= MinBlockLength} IN
  [k \in 1..Cardinality(pushed) |->
     parseMatchBlock(sport, blocks[Nth(pushed, k)], k - 1).record]

\* parseFlashscoreData (sport "football") and parseFlashscoreRugbyData:
\* for (const matchData of matches), short blocks are passed over, `continue`
\* and the catch go to the next block, and the k-th record is pushed when
\* k - 1 results are there
parseFlashscoreData(sport, data) ==
  LET blocks == split(data, MATCH_DELIMITER)
      pushed == {i \in 1..Len(blocks) :
                   /\ Len(blocks[i]) >= MinBlockLength
                   /\ parseMatchBlock(sport, blocks[i], 0).kind = "record"} IN
  [k \in 1..Cardinality(pushed) |->
     parseMatchBlock(sport, blocks[Nth(pushed, k)], k - 1).record]

\* the comparator of results.sort: b before a when b is later
later(a, b) ==
  \/ b.date > a.date
  \/ b.date = a.date /\ b.time > a.time

\* Array.prototype.sort(comparator): stable
RECURSIVE sortResults(_)
sortResults(results) ==
  IF results = <<>> THEN <<>>
  ELSE LET sorted == sortResults(SubSeq(results, 1, Len(results) - 1))
           last == results[Len(results)]
           before == Cardinality({i \in 1..Len(sorted) :
                                    ~later(sorted[i], last)}) IN
       SubSeq(sorted, 1, before) \o <<last>>
         \o SubSeq(sorted, before + 1, Len(sorted))

\* scrapeSportResults / scrapeRugbyResults without the slice
scrapeSportResultsUncapped(sport, fetched, data) ==
  IF ~fetched \/ data = <<>> THEN <<>>
  ELSE sortResults(parseFlashscoreData(sport, data))

\* scrapeSportResults / scrapeRugbyResults: the results of the feed, none
\* when the fetch failed or no data was found
scrapeSportResults(sport, fetched, data) ==
  IF ~fetched \/ data = <<>> THEN <<>>
  ELSE slice(sortResults(parseFlashscoreData(sport, data)), MaxResults)

NoRaceResult == [position |-> 0, driver |-> <<>>, team |-> <<>>, time |-> <<>>]

\* the body of the loop of parseFlashscoreF1Data (parseFlashscoreMotoGPData
\* alike) on one block
parseRaceBlock(resultData) ==
  LET positionText == matchField(resultData, AB, "digits")
      driverFirst == matchField(resultData, AF, "value")
      team == matchField(resultData, AK, "value")
      time == matchField(resultData, AG, "value")
      timestamp == matchField(resultData, AD, "digits")
      driver == IF driverFirst # <<>> THEN driverFirst
                ELSE matchAfter(resultData, WM)
      position == IF positionText = <<>> THEN 0 ELSE parseInt(positionText) IN
  IF position < 1 \/ position > PodiumSize
    THEN [kind |-> "continue", record |-> NoRaceResult]
  ELSE IF Len(timestamp) > MaxTimestampDigits
    THEN [kind |-> "thrown", record |-> NoRaceResult]
  ELSE [kind |-> "record",
        record |-> [position |-> position, driver |-> trim(driver),
                    team |-> team, time |-> time]]

\* for (const resultData of results): the records pushed, in order
parseRaceBlocks(blocks) ==
  LET pushed == {i \in 1..Len(blocks) :
                   /\ Len(blocks[i]) >= MinBlockLength
                   /\ parseRaceBlock(blocks[i]).kind = "record"} IN
  [k \in 1..Cardinality(pushed) |-> parseRaceBlock(blocks[Nth(pushed, k)]).record]

\* podium.sort((a, b) => a.position - b.position): stable
RECURSIVE sortPodium(_)
sortPodium(podium) ==
  IF podium = <<>> THEN <<>>
  ELSE LET sorted == sortPodium(SubSeq(podium, 1, Len(podium) - 1))
           last == podium[Len(podium)]
           before == Cardinality({i \in 1..Len(sorted) :
                                    sorted[i].position <= last.position}) IN
       SubSeq(sorted, 1, before) \o <<last>>
         \o SubSeq(sorted, before + 1, Len(sorted))

\* the podium of parseFlashscoreF1Data
parseFlashscoreF1Data(data) ==
  slice(sortPodium(parseRaceBlocks(split(data, MATCH_DELIMITER))), PodiumSize)

\* scrapeF1Results / scrapeMotoGPResults: the podium of the feed
scrapeF1Results(fetched, data) ==
  IF ~fetched \/ data = <<>> THEN <<>> ELSE parseFlashscoreF1Data(data)

\* the feeds: a block is an id and its fields, each a key and a value
Field(key, value) == [key |-> key, value |-> value]

RECURSIVE RenderFields(_)
RenderFields(fields) ==
  IF fields = <<>> THEN <<>>
  ELSE Head(fields).key \o <<FS>> \o Head(fields).value \o <<VS>>
         \o RenderFields(Tail(fields))

RenderBlock(block) == block.id \o <<VS>> \o RenderFields(block.fields)

RECURSIVE RenderBlocks(_)
RenderBlocks(blocks) ==
  IF blocks = <<>> THEN <<>>
  ELSE MATCH_DELIMITER \o RenderBlock(Head(blocks)) \o RenderBlocks(Tail(blocks))

FeedHeader == <<"S", "A", FS, "1", VS, "~", "Z", "A", FS, "L", "1", VS>>
RenderFeed(blocks) == FeedHeader \o RenderBlocks(blocks)

Match(id, fields) == [id |-> id, fields |-> fields]

Timestamp(digits) == Field(AD, digits)
Home(name) == Field(CX, name)
Away(name) == Field(AF, name)
HomeScore(digits) == Field(AG, digits)
AwayScore(digits) == Field(AH, digits)

DayOneAtOne == <<"9", "0", "0", "0", "0">>      \* day 1, 01:00
DayOneAtTwo == <<"9", "3", "6", "0", "0">>      \* day 1, 02:00
DayTwoAtTwo == <<"1", "8", "0", "0", "0", "0">>     \* day 2, 02:00
BeyondDates == <<"9", "9", "9", "9", "9", "9", "9", "9", "9", "9", "9", "9", "9", "9">>

LyonNice ==
  Match(<<"m", "1">>, <<Timestamp(DayOneAtOne), Home(Lyon), Away(Nice),
                  HomeScore(<<"2">>), AwayScore(<<"1">>), Field(AB, <<"3">>),
                  Field(ER, <<"J", " ", "5">>)>>)
ToulouseLens ==
  Match(<<"m", "2">>, <<Timestamp(DayOneAtTwo), Home(Toulouse), Away(Lens),
                  HomeScore(<<"0">>), AwayScore(<<"0">>), Field(AB, <<"2">>)>>)
LensLyon ==
  Match(<<"m", "3">>, <<Timestamp(DayTwoAtTwo), Home(Lens), Away(Lyon),
                  HomeScore(<<"1">>), AwayScore(<<"1">>)>>)
Undated ==
  Match(<<"m", "4">>, <<Home(Lens), Away(Nice), HomeScore(<<"3">>),
                  AwayScore(<<"0">>)>>)
NamedAfterCode ==
  Match(<<"m", "5">>, <<Field(WM, <<"L", "Y", "O">>), Field(XX, <<"1">>), Away(Nice),
                  HomeScore(<<"1">>), AwayScore(<<"0">>)>>)
DatedBeyondRange ==
  Match(<<"m", "6">>, <<Timestamp(BeyondDates), Home(Lens), Away(Nice),
                  HomeScore(<<"1">>), AwayScore(<<"0">>)>>)
NoHomeScore ==
  Match(<<"x", "1">>, <<Timestamp(DayTwoAtTwo), Home(Lyon), Away(Nice),
                  AwayScore(<<"1">>)>>)
NoAwayScore ==
  Match(<<"x", "2">>, <<Timestamp(DayTwoAtTwo), Home(Lyon), Away(Nice),
                  HomeScore(<<"2">>)>>)
EmptyHomeScore ==
  Match(<<"x", "3">>, <<Home(Lyon), Away(Nice), HomeScore(<<>>),
                  AwayScore(<<"1">>)>>)
DashHomeScore ==
  Match(<<"x", "4">>, <<Home(Lyon), Away(Nice), HomeScore(<<"-">>),
                  AwayScore(<<"1">>)>>)
NoHomeName ==
  Match(<<"x", "5">>, <<Timestamp(DayTwoAtTwo), Away(Nice), HomeScore(<<"2">>),
                  AwayScore(<<"1">>)>>)
BlankHomeName ==
  Match(<<"x", "6">>, <<Home(<<" ">>), Away(Nice), HomeScore(<<"2">>),
                  AwayScore(<<"1">>)>>)
NoAwayName ==
  Match(<<"x", "7">>, <<Home(Lyon), HomeScore(<<"2">>), AwayScore(<<"1">>)>>)
NoFields == Match(<<"x", "8">>, <<>>)

MatchBlocks ==
  {LyonNice, ToulouseLens, LensLyon, Undated, NamedAfterCode, DatedBeyondRange,
   NoHomeScore, NoAwayScore, EmptyHomeScore, DashHomeScore, NoHomeName,
   BlankHomeName, NoAwayName, NoFields}

\* one feed longer than the scraper's cap: two matches in turn
LongFeed == [i \in 1..MaxLongFeed |-> IF i % 2 = 1 THEN LyonNice ELSE LensLyon]

MatchFeeds == UNION {[1..n -> MatchBlocks] : n \in 0..MaxBlocks} \cup {LongFeed}

Finisher(id, position) ==
  Match(id, <<Field(AB, position), Field(AF, Driver),
              Field(AK, RB), Field(AG, <<"1", ":", "3", "0">>),
              Timestamp(DayOneAtOne)>>)
Unplaced == Match(<<"r", "0">>, <<Field(AF, Driver), Field(AK, RB)>>)

RaceBlocks ==
  {Finisher(<<"r", "1">>, <<"1">>), Finisher(<<"r", "2">>, <<"2">>), Finisher(<<"r", "3">>, <<"3">>),
   Finisher(<<"r", "4">>, <<"4">>), Finisher(<<"r", "5">>, <<"0">>), Unplaced,
   Match(<<"r", "6">>, <<Field(AB, <<"2">>), Field(AF, Driver),
                   Timestamp(BeyondDates)>>)}

\* one feed with the podiums of two races
TwoRaces ==
  <<Finisher(<<"r", "3">>, <<"3">>), Finisher(<<"r", "1">>, <<"1">>), Finisher(<<"r", "2">>, <<"2">>),
    Finisher(<<"r", "4">>, <<"4">>), Finisher(<<"r", "1">>, <<"1">>), Finisher(<<"r", "2">>, <<"2">>)>>

RaceFeeds == UNION {[1..n -> RaceBlocks] : n \in 0..MaxBlocks} \cup {TwoRaces}

MatchSports == {"football", "rugby"}
RaceSports == {"f1", "motogp"}

NotScraped == [done |-> FALSE, fetched |-> FALSE, parsed |-> <<>>,
               results |-> <<>>, podium |-> <<>>]

FeedInit ==
  /\ discipline \in IF underTest = "results" THEN MatchSports \cup RaceSports
                    ELSE {"football"}
  /\ feedBlocks \in IF underTest # "results" THEN {<<>>}
                    ELSE IF discipline \in MatchSports THEN MatchFeeds
                    ELSE RaceFeeds
  /\ feed = IF underTest = "results" THEN RenderFeed(feedBlocks) ELSE <<>>
  /\ scraped = NotScraped

(***************************************************************************)
(* Initial state: empty caches, no request in flight                       *)
(***************************************************************************)
(***************************************************************************)
(* The pages of the TV-schedule scraper: a page is the sequence of its     *)
(* elements in document order, each with its tag, its own text and, for a  *)
(* link, its href.                                                         *)
(***************************************************************************)
MaxElements == 2      \* elements of a page drawn from the element variants
MaxLongPage == 21     \* links of the long page

Element(tag, text, href) == [tag |-> tag, text |-> text, href |-> href]

DateHeaders ==
  { Element("h2", <<"7", " ", "m", "a", "r", "s">>, <<>>),
    Element("h2", <<"S", "a", "m", "e", "d", "i", " ", "2", "8", " ", "M", "a", "r", "s">>, <<>>),
    Element("h2", <<"3", " ", "j", "a", "n", "v", "i", "e", "r">>, <<>>),
    Element("script", <<"2", "8", " ", "m", "a", "r", "s">>, <<>>) }

MatchLinks ==
  { Element("a", <<"1", "8", ":", "0", "0", " ", "L", "y", "o", "n", " ", "-", " ", "N", "i", "c", "e">>, <<"/", "l", "i", "v", "e", "/", "1">>),
    Element("a", <<"9", ":", "0", "0", " ", "L", "e", "n", "s", " ", "-", " ", "N", "i", "c", "e">>, <<"/", "l", "i", "v", "e", "/", "1">>),
    Element("a", <<"9", ":", "0", "0", " ", "L", "e", "n", "s", " ", "-", " ", "N", "i", "c", "e">>, <<"/", "l", "i", "v", "e", "/", "2">>),
    Element("a", <<"L", "y", "o", "n", " ", "-", " ", "N", "i", "c", "e">>, <<"/", "l", "i", "v", "e", "/", "2">>),
    Element("a", <<"1", "8", ":", "0", "0", " ", "L", "o", "g", "o", " ", "-", " ", "N", "i", "c", "e">>, <<"/", "l", "i", "v", "e", "/", "3">>),
    Element("a", <<"1", "8", ":", "0", "0", " ", "L", "y", "o", "n", " ", "-", " ", "N", "i", "c", "e">>, <<"/", "c", "l", "u", "b", "/", "3">>) }

\* a date header two weeks and more ahead of the first clock, then links
\* with ids of their own, early and late kick-offs in turn
LongPage ==
  <<Element("h2", <<"2", "8", " ", "m", "a", "r", "s">>, <<>>)>>
    \o [i \in 1..MaxLongPage |->
          Element("a",
                  IF i % 2 = 1 THEN <<"1", "8", ":", "0", "0", " ", "L", "y", "o", "n", " ", "-", " ", "N", "i", "c", "e">>
                  ELSE <<"9", ":", "0", "0", " ", "L", "e", "n", "s", " ", "-", " ", "N", "i", "c", "e">>,
                  <<"/", "l", "i", "v", "e", "/">> \o TwoDigits(9 + i))]

\* two days of matches, the second more than two weeks ahead of the first
\* clock
TwoDayPage ==
  << Element("h2", <<"7", " ", "m", "a", "r", "s">>, <<>>),
     Element("a", <<"1", "8", ":", "0", "0", " ", "L", "y", "o", "n", " ", "-", " ", "N", "i", "c", "e">>,
             <<"/", "l", "i", "v", "e", "/", "1">>),
     Element("a", <<"9", ":", "0", "0", " ", "L", "e", "n", "s", " ", "-", " ", "N", "i", "c", "e">>,
             <<"/", "l", "i", "v", "e", "/", "2">>),
     Element("h2", <<"2", "8", " ", "m", "a", "r", "s">>, <<>>),
     Element("a", <<"1", "8", ":", "0", "0", " ", "L", "y", "o", "n", " ", "-", " ", "L", "e", "n", "s">>,
             <<"/", "l", "i", "v", "e", "/", "3">>) >>

TvPages ==
  UNION {[1..n -> DateHeaders \cup MatchLinks] : n \in 0..MaxElements}
    \cup {LongPage, TwoDayPage}

\* new Date(): the day the scraper runs
TvClocks ==
  { [year |-> 2026, month |-> 3, day |-> 1],
    [year |-> 2026, month |-> 12, day |-> 28] }

NotFetched == [state |-> "idle", parsed |-> <<>>, matches |-> <<>>]

TvInit ==
  /\ tvPage \in IF underTest = "schedule" THEN TvPages ELSE {<<>>}
  /\ tvClock \in IF underTest = "schedule" THEN TvClocks
                 ELSE {[year |-> 2026, month |-> 3, day |-> 1]}
  /\ tvSchedule = NotFetched
(***************************************************************************)
(* The SMTP dialogue of the alert e-mail: the socket delivers chunks of    *)
(* text, the client splits them into lines and awaits one reply at a time. *)
(***************************************************************************)
MaxRecipients == 2    \* addresses in ALERT_EMAIL_TO
MaxReplyLines == 1    \* lines of a reply before its last one
MaxBuffer == 8        \* characters received and not yet handled

CRLF == <<CR, LF>>
ReplyCodes == {220, 221, 235, 250, 251, 334, 354, 550}

ThreeDigits(n) == <<DigitChar[(n \div 100) + 1]>> \o TwoDigits(n % 100)

\* what the server may send in one chunk: the last line of a reply, a line
\* that announces more, a code without text, and a line cut in two
SmtpChunks ==
  {ThreeDigits(c) \o <<sep, "o", "k">> \o CRLF :
     c \in ReplyCodes, sep \in {" ", "-"}}
    \cup {ThreeDigits(c) \o CRLF : c \in ReplyCodes}
    \cup {<<"2", "5">>, <<"0", " ", "o", "k">> \o CRLF}

IdleMail ==
  [state |-> "idle", user |-> FALSE, pass |-> FALSE, to |-> 1, step |-> 0,
   wire |-> <<>>, replies |-> <<>>, awaited |-> 0, lines |-> 0,
   buffer |-> <<>>, ended |-> FALSE, destroyed |-> FALSE, sent |-> FALSE,
   thrown |-> FALSE, reason |-> "none"]

MailInit == mail = IdleMail

Units == {"ttl", "generic", "calendar", "metadata", "stations", "tv",
          "withRetry", "abuse", "traffic", "counters", "ics", "sport",
          "overlap", "rewrite", "geo", "results", "schedule",
          "smtp"}
Reqs == {"r1", "r2"}
IdleReq == [h |-> "none", key |-> "k1", pc |-> "idle", status |-> 0,
            marker |-> "none", body |-> Null, failed |-> FALSE,
            expected |-> Null]
NoCall == [impl |-> "none", op |-> "none", key |-> "k1", result |-> Null,
           seq |-> 0]

CacheInit ==
  /\ now = 0
  /\ entries = [k \in Keys |-> NoEntry]
  /\ genericCache = [k \in Keys |-> NoEntry]
  /\ cache = [k \in Keys |-> NoEntry]
  /\ written = [c \in CacheNames |-> [k \in Keys |-> NeverWritten]]
  /\ underTest \in Units
  /\ lastCall = NoCall
  /\ reqs = [r \in Reqs |-> IdleReq]

\* the states of the upstream data, oldest first
Versions == <<"v1", "v2">>
VersionOf(d) == CHOOSE i \in DOMAIN Versions : Versions[i] = d

OriginInit ==
  origin = [data |-> 1, read |-> [r \in Reqs |-> 0], arrived |-> <<>>]

Init ==
  /\ CacheInit /\ RetryInit /\ AbuseInit /\ IcsInit /\ RewriteInit
  /\ ServiceInit /\ FeedInit /\ OriginInit /\ TvInit
  /\ MailInit

(***************************************************************************)
(* The clock                                                               *)
(***************************************************************************)
TickMs ==
  /\ now % MsPerSecond < MaxMsTicks
  /\ now' = now + 1
  /\ UNCHANGED <<entries, genericCache, cache, written, underTest, lastCall, reqs,
               nonCacheVars>>

TickSec ==
  /\ now \div MsPerSecond < MaxSecTicks
  /\ now' = now + MsPerSecond
  /\ UNCHANGED <<entries, genericCache, cache, written, underTest, lastCall, reqs,
               nonCacheVars>>

(***************************************************************************)
(* Direct calls of the cache API                                           *)
(***************************************************************************)
Called(impl, op, key, result) ==
  [impl |-> impl, op |-> op, key |-> key, result |-> result,
   seq |-> 1 - lastCall.seq]

CallGet(k) ==
  LET r == get(entries, TtlMs, k, now) IN
  /\ underTest = "ttl"
  /\ entries' = r.entries
  /\ lastCall' = Called("ttl", "get", k, r.result)
  /\ UNCHANGED <<now, genericCache, cache, written, underTest, reqs,
               nonCacheVars>>

CallGetStale(k) ==
  /\ underTest = "ttl"
  /\ lastCall' = Called("ttl", "getStale", k, getStale(entries, k))
  /\ UNCHANGED <<now, entries, genericCache, cache, written, underTest, reqs,
               nonCacheVars>>

CallSet(k, d) ==
  /\ underTest = "ttl"
  /\ entries' = set(entries, k, d, now)
  /\ written' = Wrote(written, "ttl", k, d, now, 0)
  /\ lastCall' = Called("ttl", "set", k, Null)
  /\ UNCHANGED <<now, genericCache, cache, underTest, reqs,
               nonCacheVars>>

CallGetCache(k) ==
  LET r == getCache(genericCache, k, now) IN
  /\ underTest = "generic"
  /\ genericCache' = r.entries
  /\ lastCall' = Called("generic", "get", k, r.result)
  /\ UNCHANGED <<now, entries, cache, written, underTest, reqs,
               nonCacheVars>>

CallGetStaleCache(k) ==
  /\ underTest = "generic"
  /\ lastCall' = Called("generic", "getStale", k, getStaleCache(genericCache, k))
  /\ UNCHANGED <<now, entries, genericCache, cache, written, underTest, reqs,
               nonCacheVars>>

CallSetCache(k, d, ttlSeconds) ==
  /\ underTest = "generic"
  /\ genericCache' = setCache(genericCache, k, d, ttlSeconds, now)
  /\ written' = Wrote(written, "generic", k, d, now, ttlSeconds)
  /\ lastCall' = Called("generic", "set", k, Null)
  /\ UNCHANGED <<now, entries, cache, underTest, reqs,
               nonCacheVars>>

NextCache ==
  \/ TickMs
  \/ TickSec
  \/ \E k \in Keys : CallGet(k)
  \/ \E k \in Keys : CallGetStale(k)
  \/ \E k \in Keys, d \in Data : CallSet(k, d)
  \/ \E k \in Keys : CallGetCache(k)
  \/ \E k \in Keys : CallGetStaleCache(k)
  \/ \E k \in Keys, d \in Data, s \in 1..MaxTtlSeconds : CallSetCache(k, d, s)

SpecCache == Init /\ [][NextCache]_vars

(***************************************************************************)
(* HTTP handlers.  A handler runs without interruption up to its upstream  *)
(* call (await), and again from the upstream outcome to its response.      *)
(***************************************************************************)
CalendarKey == "k1"             \* `v1:ics:${slug}:suffix:...`
MetadataKey == "k2"             \* `v1:metadata:${slug}`
CACHE_KEY == "k1"               \* 'v1:tv-schedule:ligue1'
RESULTS_KEY == "k1"             \* 'v1:results:football'
EmptyResults == "empty"         \* a response with results: []
CalendarTtlSeconds == MaxTtlSeconds  \* CACHE_TTL.CALENDAR, scaled
MetadataTtlSeconds == MaxTtlSeconds  \* 300, scaled
UpstreamErrors == {"network", "http429", "http500"}

Started(h, key) ==
  [h |-> h, key |-> key, pc |-> "fetching", status |-> 0, marker |-> "none",
   body |-> Null, failed |-> FALSE, expected |-> Null]

Response(h, key, status, marker, body) ==
  [h |-> h, key |-> key, pc |-> "done", status |-> status, marker |-> marker,
   body |-> body, failed |-> FALSE, expected |-> Null]

\* the response of a request whose upstream call threw; `expected` records
\* what had last been cached under the key when the call failed
Degraded(h, key, status, marker, body, expected) ==
  [h |-> h, key |-> key, pc |-> "done", status |-> status, marker |-> marker,
   body |-> body, failed |-> TRUE, expected |-> expected]

\* calendars/[slug].ts handler, up to fetchWithRetry
CalendarBegin(r, method, abuseBlocked) ==
  LET c == getCache(genericCache, CalendarKey, now) IN
  /\ underTest = "calendar"
  /\ reqs[r].pc = "idle"
  /\ IF abuseBlocked
       THEN /\ reqs' = [reqs EXCEPT ![r] =
                          Response("calendar", CalendarKey, 429, "none", Null)]
            /\ UNCHANGED genericCache
       ELSE /\ genericCache' = c.entries
            /\ reqs' = [reqs EXCEPT ![r] =
                 IF c.result # Null
                   THEN Response("calendar", CalendarKey, 200, "hit", c.result)
                   ELSE IF method = "HEAD"
                     THEN Response("calendar", CalendarKey, 200, "none", Null)
                     ELSE Started("calendar", CalendarKey)]
  /\ UNCHANGED <<now, entries, cache, written, underTest, lastCall,
               nonCacheVars>>

\* fetchWithRetry resolved with an ok response
CalendarFetchOk(r, d) ==
  /\ reqs[r].pc = "fetching" /\ reqs[r].h = "calendar"
  /\ genericCache' = setCache(genericCache, CalendarKey, d, CalendarTtlSeconds, now)
  /\ written' = Wrote(written, "generic", CalendarKey, d, now, CalendarTtlSeconds)
  /\ reqs' = [reqs EXCEPT ![r] = Response("calendar", CalendarKey, 200, "miss", d)]
  /\ UNCHANGED <<now, entries, cache, underTest, lastCall,
               nonCacheVars>>

\* fetchWithRetry resolved with a 4xx response: 502, no stale read
CalendarFetchNotOk(r) ==
  /\ reqs[r].pc = "fetching" /\ reqs[r].h = "calendar"
  /\ reqs' = [reqs EXCEPT ![r] = Response("calendar", CalendarKey, 502, "none", Null)]
  /\ UNCHANGED <<now, entries, genericCache, cache, written, underTest, lastCall,
               nonCacheVars>>

\* fetchWithRetry rejected: the catch block
CalendarFetchThrows(r) ==
  LET stale == getStaleCache(genericCache, CalendarKey)
      had == written["generic"][CalendarKey].value IN
  /\ reqs[r].pc = "fetching" /\ reqs[r].h = "calendar"
  /\ reqs' = [reqs EXCEPT ![r] =
       IF stale # Null
         THEN Degraded("calendar", CalendarKey, 200, "stale", stale, had)
         ELSE Degraded("calendar", CalendarKey, 500, "none", Null, had)]
  /\ UNCHANGED <<now, entries, genericCache, cache, written, underTest, lastCall,
               nonCacheVars>>

\* calendars/metadata/[slug].ts handler
MetadataBegin(r, abuseBlocked) ==
  LET c == getCache(genericCache, MetadataKey, now) IN
  /\ underTest = "metadata"
  /\ reqs[r].pc = "idle"
  /\ IF abuseBlocked
       THEN /\ reqs' = [reqs EXCEPT ![r] =
                          Response("metadata", MetadataKey, 429, "none", Null)]
            /\ UNCHANGED genericCache
       ELSE /\ genericCache' = c.entries
            /\ reqs' = [reqs EXCEPT ![r] =
                 IF c.result # Null
                   THEN Response("metadata", MetadataKey, 200, "hit", c.result)
                   ELSE Started("metadata", MetadataKey)]
  /\ UNCHANGED <<now, entries, cache, written, underTest, lastCall,
               nonCacheVars>>

MetadataFetchOk(r, d) ==
  /\ reqs[r].pc = "fetching" /\ reqs[r].h = "metadata"
  /\ genericCache' = setCache(genericCache, MetadataKey, d, MetadataTtlSeconds, now)
  /\ written' = Wrote(written, "generic", MetadataKey, d, now, MetadataTtlSeconds)
  /\ reqs' = [reqs EXCEPT ![r] = Response("metadata", MetadataKey, 200, "miss", d)]
  /\ UNCHANGED <<now, entries, cache, underTest, lastCall,
               nonCacheVars>>

\* fetchWithRetry rejected, or the response was not ok (thrown in the try)
MetadataFetchThrows(r) ==
  LET stale == getStaleCache(genericCache, MetadataKey)
      had == written["generic"][MetadataKey].value IN
  /\ reqs[r].pc = "fetching" /\ reqs[r].h = "metadata"
  /\ reqs' = [reqs EXCEPT ![r] =
       IF stale # Null
         THEN Degraded("metadata", MetadataKey, 200, "stale", stale, had)
         ELSE Degraded("metadata", MetadataKey, 500, "none", Null, had)]
  /\ UNCHANGED <<now, entries, genericCache, cache, written, underTest, lastCall,
               nonCacheVars>>

\* resolveEndpointError: 429 stays 429, another upstream status is 502,
\* an error that is no UpstreamServiceError is 500
resolveEndpointError(err) ==
  IF err = "http429" THEN 429
  ELSE IF err = "http500" THEN 502
  ELSE 500

\* services/stations.ts handler with searchStationsBy*: parse, then cache.get
StationsBegin(r, k, valid) ==
  LET c == get(entries, TtlMs, k, now) IN
  /\ underTest = "stations"
  /\ reqs[r].pc = "idle"
  /\ IF ~valid
       THEN /\ reqs' = [reqs EXCEPT ![r] = Response("stations", k, 400, "none", Null)]
            /\ UNCHANGED entries
       ELSE /\ entries' = c.entries
            /\ reqs' = [reqs EXCEPT ![r] =
                 IF c.result # Null
                   THEN Response("stations", k, 200, "none", c.result)
                   ELSE Started("stations", k)]
  /\ UNCHANGED <<now, genericCache, cache, written, underTest, lastCall,
               nonCacheVars>>

StationsFetchOk(r, d) ==
  /\ reqs[r].pc = "fetching" /\ reqs[r].h = "stations"
  /\ entries' = set(entries, reqs[r].key, d, now)
  /\ written' = Wrote(written, "ttl", reqs[r].key, d, now, 0)
  /\ reqs' = [reqs EXCEPT ![r] = Response("stations", reqs[r].key, 200, "none", d)]
  /\ UNCHANGED <<now, genericCache, cache, underTest, lastCall,
               nonCacheVars>>

StationsFetchThrows(r, err) ==
  LET k == reqs[r].key
      stale == getStale(entries, k)
      had == written["ttl"][k].value IN
  /\ reqs[r].pc = "fetching" /\ reqs[r].h = "stations"
  /\ reqs' = [reqs EXCEPT ![r] =
       IF stale # Null
         THEN Degraded("stations", k, 200, "stale", stale, had)
         ELSE Degraded("stations", k, resolveEndpointError(err), "none", Null, had)]
  /\ UNCHANGED <<now, entries, genericCache, cache, written, underTest, lastCall,
               nonCacheVars>>

\* sports/tv-schedule.ts handler (sports/results/[sport].ts has the same shape)
ScheduleBegin(r) ==
  LET c == getCached(cache, CACHE_KEY, now) IN
  /\ underTest = "tv"
  /\ reqs[r].pc = "idle"
  /\ cache' = c.entries
  /\ reqs' = [reqs EXCEPT ![r] =
       IF c.result # Null
         THEN Response("tv", CACHE_KEY, 200, "none", c.result)
         ELSE Started("tv", CACHE_KEY)]
  /\ UNCHANGED <<now, entries, genericCache, written, underTest, lastCall,
               nonCacheVars>>

ScheduleScrapeOk(r, d) ==
  /\ reqs[r].pc = "fetching" /\ reqs[r].h = "tv"
  /\ cache' = setScheduleCache(cache, CACHE_KEY, d, now)
  /\ written' = Wrote(written, "tv", CACHE_KEY, d, now, 0)
  /\ reqs' = [reqs EXCEPT ![r] = Response("tv", CACHE_KEY, 200, "none", d)]
  /\ UNCHANGED <<now, entries, genericCache, underTest, lastCall,
               nonCacheVars>>

\* the catch block reads the cache with getCached again
ScheduleScrapeThrows(r) ==
  LET c == getCached(cache, CACHE_KEY, now)
      had == written["tv"][CACHE_KEY].value IN
  /\ reqs[r].pc = "fetching" /\ reqs[r].h = "tv"
  /\ cache' = c.entries
  /\ reqs' = [reqs EXCEPT ![r] =
       IF c.result # Null
         THEN Degraded("tv", CACHE_KEY, 200, "cached", c.result, had)
         ELSE Degraded("tv", CACHE_KEY, 500, "none", Null, had)]
  /\ UNCHANGED <<now, entries, genericCache, written, underTest, lastCall,
               nonCacheVars>>

\* sports/results/[sport].ts handler: getCache, and on a miss the scraper;
\* the results cache has the shape of the TV-schedule cache
ResultsBegin(r) ==
  LET c == getCached(cache, RESULTS_KEY, now) IN
  /\ underTest = "sport"
  /\ reqs[r].pc = "idle"
  /\ cache' = c.entries
  /\ reqs' = [reqs EXCEPT ![r] =
       IF c.result # Null
         THEN Response("results", RESULTS_KEY, 200, "none", c.result)
         ELSE Started("results", RESULTS_KEY)]
  /\ UNCHANGED <<now, entries, genericCache, written, underTest, lastCall,
               nonCacheVars>>

\* config.scraper() returned, with the results of the page or, the fetch
\* having failed, with the empty results of its catch block; the handler
\* caches what it got
ResultsScraped(r, fetched, d) ==
  LET results == IF fetched THEN d ELSE EmptyResults
      had == written["tv"][RESULTS_KEY].value IN
  /\ reqs[r].pc = "fetching" /\ reqs[r].h = "results"
  /\ cache' = setScheduleCache(cache, RESULTS_KEY, results, now)
  /\ written' = Wrote(written, "tv", RESULTS_KEY, results, now, 0)
  /\ reqs' = [reqs EXCEPT ![r] =
       IF fetched
         THEN Response("results", RESULTS_KEY, 200, "none", results)
         ELSE Degraded("results", RESULTS_KEY, 200, "none", results, had)]
  /\ UNCHANGED <<now, entries, genericCache, underTest, lastCall,
               nonCacheVars>>

\* the response has been sent; the slot serves the next request
Finish(r) ==
  /\ reqs[r].pc = "done"
  /\ reqs' = [reqs EXCEPT ![r] = IdleReq]
  /\ UNCHANGED <<now, entries, genericCache, cache, written, underTest, lastCall,
               nonCacheVars>>

NextHandlers ==
  \/ TickMs
  \/ TickSec
  \/ \E r \in Reqs, m \in {"GET", "HEAD"}, b \in BOOLEAN : CalendarBegin(r, m, b)
  \/ \E r \in Reqs, d \in Data : CalendarFetchOk(r, d)
  \/ \E r \in Reqs : CalendarFetchNotOk(r)
  \/ \E r \in Reqs : CalendarFetchThrows(r)
  \/ \E r \in Reqs, b \in BOOLEAN : MetadataBegin(r, b)
  \/ \E r \in Reqs, d \in Data : MetadataFetchOk(r, d)
  \/ \E r \in Reqs : MetadataFetchThrows(r)
  \/ \E r \in Reqs, k \in Keys, v \in BOOLEAN : StationsBegin(r, k, v)
  \/ \E r \in Reqs, d \in Data : StationsFetchOk(r, d)
  \/ \E r \in Reqs, e \in UpstreamErrors : StationsFetchThrows(r, e)
  \/ \E r \in Reqs : ScheduleBegin(r)
  \/ \E r \in Reqs, d \in Data : ScheduleScrapeOk(r, d)
  \/ \E r \in Reqs : ScheduleScrapeThrows(r)
  \/ \E r \in Reqs : ResultsBegin(r)
  \/ \E r \in Reqs, fetched \in BOOLEAN, d \in Data :
       ResultsScraped(r, fetched, d)
  \/ \E r \in Reqs : Finish(r)

SpecHandlers == Init /\ [][NextHandlers]_vars

(***************************************************************************)
(* Two searches that overlap: searchStationsByPostalCode on the            *)
(* stationCache, the upstream answering each request from the state its    *)
(* data has when the request reaches it                                    *)
(***************************************************************************)
\* stationCache.get(cacheKey): a hit returns, a miss awaits fetchStations
SearchBegin(r, k) ==
  LET c == get(entries, TtlMs, k, now) IN
  /\ underTest = "overlap"
  /\ reqs[r].pc = "idle"
  /\ entries' = c.entries
  /\ reqs' = [reqs EXCEPT ![r] =
       IF c.result # Null
         THEN Response("stations", k, 200, "hit", c.result)
         ELSE Started("stations", k)]
  /\ UNCHANGED <<now, genericCache, cache, written, underTest, lastCall,
               nonCacheVars>>

\* the upstream data set is updated
UpstreamChanges ==
  /\ underTest = "overlap"
  /\ origin.data < Len(Versions)
  /\ origin' = [origin EXCEPT !.data = @ + 1]
  /\ UNCHANGED <<cacheVars, retryVars, abuseVars, icsVars, svcVars, feedVars, tvVars,
                 mail>>

\* the upstream answers the request of r from its current data
UpstreamReads(r) ==
  /\ reqs[r].pc = "fetching" /\ reqs[r].h = "stations"
  /\ underTest = "overlap"
  /\ origin.read[r] = 0
  /\ origin' = [origin EXCEPT !.read[r] = origin.data]
  /\ UNCHANGED <<cacheVars, retryVars, abuseVars, icsVars, svcVars, feedVars, tvVars,
                 mail>>

\* the response reaches r: stationCache.set(cacheKey, stations), return
SearchFetched(r) ==
  LET k == reqs[r].key
      d == Versions[origin.read[r]] IN
  /\ reqs[r].pc = "fetching" /\ reqs[r].h = "stations"
  /\ underTest = "overlap"
  /\ origin.read[r] # 0
  /\ entries' = set(entries, k, d, now)
  /\ written' = Wrote(written, "ttl", k, d, now, 0)
  /\ reqs' = [reqs EXCEPT ![r] = Response("stations", k, 200, "miss", d)]
  /\ origin' = [origin EXCEPT !.arrived =
                  Append(@, [r |-> r, key |-> k, data |-> d, at |-> now])]
  /\ UNCHANGED <<now, genericCache, cache, underTest, lastCall, retryVars,
                 abuseVars, icsVars, svcVars, feedVars, tvVars,
                 mail>>

NextOverlap ==
  \/ TickMs
  \/ TickSec
  \/ \E r \in Reqs, k \in Keys : SearchBegin(r, k)
  \/ UpstreamChanges
  \/ \E r \in Reqs : UpstreamReads(r)
  \/ \E r \in Reqs : SearchFetched(r)

SpecOverlap == Init /\ [][NextOverlap]_vars

(***************************************************************************)
(* Claims about the caches and the stale fallback                          *)
(***************************************************************************)

\* C1: in the calendar, metadata and services handlers, a request whose
\* upstream call failed while a result had been cached under its key is
\* answered 200 with that cached result, marked stale, whatever its age
C1_StaleServedOnUpstreamFailure ==
  \A r \in Reqs :
    (/\ reqs[r].pc = "done"
     /\ reqs[r].failed
     /\ reqs[r].h \in {"calendar", "metadata", "stations"}
     /\ reqs[r].expected # Null)
    => (/\ reqs[r].status = 200
        /\ reqs[r].body = reqs[r].expected
        /\ reqs[r].marker = "stale")

\* a failed request was served the stale entry
C1_StaleServed ==
  \E r \in Reqs :
    /\ reqs[r].pc = "done" /\ reqs[r].failed
    /\ reqs[r].h \in {"calendar", "metadata", "stations"}
    /\ reqs[r].status = 200 /\ reqs[r].marker = "stale"

\* C2: after set(k, v), getStale(k) returns v until the next set(k, .),
\* whatever the entry's age and the get/getStale calls in between, for
\* InMemoryTTLCache and for the generic cache
C2_GetStaleReturnsLastSet ==
  \A k \in Keys :
    /\ written["ttl"][k].value # Null
         => getStale(entries, k) = written["ttl"][k].value
    /\ written["generic"][k].value # Null
         => getStaleCache(genericCache, k) = written["generic"][k].value

\* getStale was called on a key that had been set and returned null
C2_StaleLost ==
  /\ lastCall.op = "getStale"
  /\ lastCall.result = Null
  /\ written[lastCall.impl][lastCall.key].value # Null

\* C3: get(key) returns null when the key was never set or when
\* now - timestamp > ttl, removing exactly that entry in the expired case;
\* otherwise (age <= ttl) it returns the value of the last set and removes
\* nothing; getStale changes no entry
C3_GetContract ==
  [][lastCall'.seq # lastCall.seq =>
      LET c == lastCall'
          w == written[c.impl][c.key]
          ttl == IF c.impl = "ttl" THEN TtlMs ELSE w.ttl * MsPerSecond
          missing == w.value = Null \/ now - w.at > ttl
          same == entries' = entries /\ genericCache' = genericCache
          removed == IF c.impl = "ttl"
                       THEN /\ entries' = [entries EXCEPT ![c.key] = NoEntry]
                            /\ genericCache' = genericCache
                       ELSE /\ genericCache' = [genericCache EXCEPT ![c.key] = NoEntry]
                            /\ entries' = entries
      IN /\ (c.op = "get" /\ missing) => (c.result = Null /\ removed)
         /\ (c.op = "get" /\ ~missing) => (c.result = w.value /\ same)
         /\ c.op = "getStale" => same
  ]_vars

\* get returned the value of an entry whose age is exactly the ttl, and get
\* on an expired key returned null and left the other key's entry in place
C3_GetAtTtl ==
  /\ lastCall.impl = "ttl" /\ lastCall.op = "get"
  /\ lastCall.result # Null
  /\ now - written["ttl"][lastCall.key].at = TtlMs
  /\ \E k \in Keys : ~entries[k].present /\ written["ttl"][k].value # Null

\* C8: in the TV-schedule and sport-results handlers, when scraping throws
\* the answer is 200 with the data previously cached under the key, even
\* expired, marked '(cached)'; it is 500 only if nothing was ever cached
C8_ScheduleStaleOnScrapeError ==
  \A r \in Reqs :
    (reqs[r].pc = "done" /\ reqs[r].failed /\ reqs[r].h = "tv")
    => IF reqs[r].expected # Null
         THEN /\ reqs[r].status = 200
              /\ reqs[r].body = reqs[r].expected
              /\ reqs[r].marker = "cached"
         ELSE reqs[r].status = 500

\* a failed scrape was answered from the cache
C8_CachedServed ==
  \E r \in Reqs :
    /\ reqs[r].pc = "done" /\ reqs[r].failed /\ reqs[r].h = "tv"
    /\ reqs[r].status = 200 /\ reqs[r].marker = "cached"

(***************************************************************************)
(* withRetry / fetchWithRetry as a process: one step per await             *)
(***************************************************************************)
Statuses == {200, 404, 500, 503}

\* the catch block with onRetry given the number of the failed attempt
CatchNumbersFromZero(error, rnd) ==
  IF shouldRetry(rt.attempt, opts, error)
    THEN LET delay == calculateDelay(rt.attempt, opts, rnd) IN
         /\ rt' = [rt EXCEPT !.lastError = error, !.pc = "sleeping",
                             !.sleeps = @ + 1, !.slept = delay]
         /\ retryLog' = Append(retryLog,
              [attempt |-> rt.attempt, error |-> error, delay |-> delay])
    ELSE /\ rt' = [rt EXCEPT !.lastError = error, !.thrown = error,
                             !.pc = "rejected"]
         /\ UNCHANGED retryLog

\* the catch block of withRetry for the error of the current attempt:
\* options.onRetry(attempt + 1, lastError, delay), then sleep(delay)
Catch(error, rnd) ==
  IF shouldRetry(rt.attempt, opts, error)
    THEN LET delay == calculateDelay(rt.attempt, opts, rnd) IN
         /\ rt' = [rt EXCEPT !.lastError = error, !.pc = "sleeping",
                             !.sleeps = @ + 1, !.slept = delay]
         /\ retryLog' = Append(retryLog,
              [attempt |-> rt.attempt + 1, error |-> error, delay |-> delay])
    ELSE /\ rt' = [rt EXCEPT !.lastError = error, !.thrown = error,
                             !.pc = "rejected"]
         /\ UNCHANGED retryLog

\* withRetry(fn, userOptions) or fetchWithRetry(url, ..., retryOptions) is
\* called: the options are merged and attempt 0 invokes the operation
StartWithRetry(kind, maxRetries, pred, jitter, initialDelay) ==
  /\ underTest = "withRetry"
  /\ rt.pc = "idle"
  /\ kind = "op" => pred \in {"always", "never"}
  /\ kind = "fetch" => pred \in {"fetchDefault", "never"}
  /\ opts' = [DefaultOptions EXCEPT !.kind = kind, !.maxRetries = maxRetries,
                                    !.pred = pred, !.jitter = jitter,
                                    !.initialDelay = initialDelay]
  /\ rt' = [IdleCall EXCEPT !.pc = "running", !.invocations = 1]
  /\ inflight' = {0}
  /\ retryLog' = <<>>
  /\ UNCHANGED nonRetryVars

\* the caller's operation resolves: withRetry returns its result
OpResolves ==
  /\ rt.pc = "running" /\ opts.kind = "op"
  /\ rt' = [rt EXCEPT !.pc = "resolved"]
  /\ inflight' = inflight \ {rt.attempt}
  /\ UNCHANGED <<opts, retryLog, nonRetryVars>>

\* the caller's operation rejects
OpRejects(rnd) ==
  /\ rt.pc = "running" /\ opts.kind = "op"
  /\ Catch(Error(OperationErrorMessage, rt.attempt, "op"), rnd)
  /\ inflight' = inflight \ {rt.attempt}
  /\ UNCHANGED <<opts, nonRetryVars>>

\* the timer of Promise.race rejects first; the operation stays pending
OpTimesOut(rnd) ==
  /\ rt.pc = "running" /\ opts.kind = "op"
  /\ Catch(Error(TimeoutMessage, rt.attempt, "timeout"), rnd)
  /\ UNCHANGED <<opts, inflight, nonRetryVars>>

\* an operation abandoned by a timeout settles later; nobody awaits it
AbandonedOpSettles(a) ==
  /\ a \in inflight
  /\ ~(rt.pc = "running" /\ a = rt.attempt)
  /\ inflight' = inflight \ {a}
  /\ UNCHANGED <<opts, rt, retryLog, nonRetryVars>>

\* fetch resolves with a response: >= 500 throws 'Server error', else returned
FetchResponds(status, rnd) ==
  /\ rt.pc = "running" /\ opts.kind = "fetch"
  /\ IF status >= 500
       THEN Catch(Error(ServerErrorMessage(status), rt.attempt, "http5xx"), rnd)
       ELSE /\ rt' = [rt EXCEPT !.pc = "resolved", !.status = status]
            /\ UNCHANGED retryLog
  /\ inflight' = inflight \ {rt.attempt}
  /\ UNCHANGED <<opts, nonRetryVars>>

\* fetch rejects on a connection failure
FetchNetworkError(rnd) ==
  /\ rt.pc = "running" /\ opts.kind = "fetch"
  /\ Catch(Error(NetworkErrorMessage, rt.attempt, "network"), rnd)
  /\ inflight' = inflight \ {rt.attempt}
  /\ UNCHANGED <<opts, nonRetryVars>>

\* the attempt reaches `timeout` ms: the abort timer and the timer of
\* Promise.race are due together; the race settles with the rejection of the
\* aborted fetch or with the timer's timeout error, whichever comes first
FetchDeadline(first, rnd) ==
  /\ rt.pc = "running" /\ opts.kind = "fetch"
  /\ IF first = "abort"
       THEN Catch(Error(AbortErrorMessage, rt.attempt, "abort"), rnd)
       ELSE Catch(Error(TimeoutMessage, rt.attempt, "timeout"), rnd)
  /\ inflight' = inflight \ {rt.attempt}
  /\ UNCHANGED <<opts, nonRetryVars>>

\* sleep(delay) is over: the next iteration invokes the operation again
Wake ==
  /\ rt.pc = "sleeping"
  /\ rt' = [rt EXCEPT !.pc = "running", !.attempt = @ + 1,
                      !.invocations = @ + 1]
  /\ inflight' = inflight \cup {rt.attempt + 1}
  /\ UNCHANGED <<opts, retryLog, nonRetryVars>>

NextRetry ==
  \/ \E kind \in {"op", "fetch"}, m \in 0..MaxRetriesBound,
        pred \in {"always", "never", "fetchDefault"}, j \in BOOLEAN,
        d \in {InitialDelay - 1, InitialDelay} :
       StartWithRetry(kind, m, pred, j, d)
  \/ OpResolves
  \/ \E rnd \in 0..(RandomSteps - 1) : OpRejects(rnd)
  \/ \E rnd \in 0..(RandomSteps - 1) : OpTimesOut(rnd)
  \/ \E a \in 0..MaxRetriesBound : AbandonedOpSettles(a)
  \/ \E st \in Statuses, rnd \in 0..(RandomSteps - 1) : FetchResponds(st, rnd)
  \/ \E rnd \in 0..(RandomSteps - 1) : FetchNetworkError(rnd)
  \/ \E first \in {"abort", "timer"}, rnd \in 0..(RandomSteps - 1) :
       FetchDeadline(first, rnd)
  \/ Wake

SpecRetry == Init /\ [][NextRetry]_vars

(***************************************************************************)
(* Claims about withRetry and fetchWithRetry                               *)
(***************************************************************************)

\* C4: with a predicate accepting every error, a withRetry call whose
\* attempts all fail invokes the operation exactly maxRetries + 1 times and
\* rejects with the error of the final attempt
C4_ExhaustsThenThrowsLastError ==
  /\ opts.pred = "always" => rt.invocations <= opts.maxRetries + 1
  /\ (rt.pc = "rejected" /\ opts.pred = "always")
       => /\ rt.invocations = opts.maxRetries + 1
          /\ rt.thrown = rt.lastError
          /\ rt.thrown.at = opts.maxRetries

\* a call with retries rejected with an error that differs from the first one
C4_Exhausted ==
  /\ rt.pc = "rejected" /\ opts.pred = "always"
  /\ opts.maxRetries = MaxRetriesBound
  /\ Len(retryLog) = MaxRetriesBound
  /\ retryLog[1].error # rt.thrown
  /\ retryLog[1].error.cause = "timeout"

\* C5: with a predicate that is always false the operation is invoked
\* exactly once, onRetry is never called, nothing is slept, and the call
\* rejects with the error of that attempt, whatever maxRetries is
C5_NotRetryableStopsAtOnce ==
  opts.pred = "never" =>
    /\ rt.invocations <= 1
    /\ retryLog = <<>>
    /\ rt.sleeps = 0
    /\ rt.pc # "sleeping"
    /\ rt.pc = "rejected" =>
         /\ rt.invocations = 1
         /\ rt.thrown = rt.lastError
         /\ rt.thrown.at = 0

\* a call allowed retries gave up after its first attempt
C5_GaveUpAtOnce ==
  /\ rt.pc = "rejected" /\ opts.pred = "never"
  /\ opts.maxRetries = MaxRetriesBound
  /\ rt.invocations = 1

\* C6: with the default predicate fetchWithRetry retries an attempt that got
\* a 5xx response while attempts remain, and returns a 2xx or 4xx response
\* right after the attempt that received it
C6_Retries5xx ==
  (opts.kind = "fetch" /\ opts.pred = "fetchDefault") =>
    /\ (rt.pc = "rejected" /\ rt.thrown.cause = "http5xx")
         => rt.attempt = opts.maxRetries
    /\ rt.pc = "resolved"
         => /\ rt.status \in {st \in Statuses : st < 500}
            /\ rt.invocations = rt.attempt + 1

\* C7: an attempt of fetchWithRetry that reaches its timeout ends with a
\* timeout error that the default predicate accepts, so the call gives up
\* on it only when no attempt remains; the attempt is no longer pending
C7_TimeoutIsRetried ==
  (/\ opts.kind = "fetch" /\ opts.pred = "fetchDefault"
   /\ rt.lastError.cause \in {"abort", "timeout"}
   /\ rt.pc \in {"sleeping", "rejected"})
  => /\ isRetryable(rt.lastError)
     /\ rt.pc = "rejected" => rt.attempt = opts.maxRetries
     /\ rt.lastError.at \notin inflight

(***************************************************************************)
(* The abuse tracker: one step per trackAbuseRequest call.  The calls of   *)
(* unit "abuse" vary the caller and the deployment at one instant; those   *)
(* of unit "traffic", further down, are spread over time.                  *)
(***************************************************************************)
\* time passes between two requests
AbuseTick ==
  /\ underTest \in {"traffic", "counters"}
  /\ now < MaxAbuseTicks * TickSeconds * MsPerSecond
  /\ now' = now + TickSeconds * MsPerSecond
  /\ UNCHANGED <<abuseVars, nonAbuseVars>>

Request(ip, ua, endpoint, slug) ==
  [ip |-> ip, ua |-> ua, endpoint |-> endpoint, slug |-> slug]

\* a call runs up to its return, or up to its await of the alert
Track(req, reply) ==
  /\ decision.alert # "pending"
  /\ \E r \in {trackAbuseRequest(env,
                 [counters |-> counters, leaderboards |-> leaderboards,
                  locks |-> locks],
                 req, now \div MsPerSecond, reply)} :
       /\ counters' = r.db.counters
       /\ leaderboards' = r.db.leaderboards
       /\ locks' = r.db.locks
       /\ decision' = r.decision
  /\ tracked' = tracked + 1
  /\ UNCHANGED <<now, env, emails, nonAbuseVars>>

Tracked(req, reply) ==
  /\ tracked < MaxRequests
  /\ Track(req, reply)
  /\ UNCHANGED arrivals

\* the store is not configured: the call returns before any command
TrackDisabled(ip, ua, endpoint, slug) ==
  /\ underTest = "abuse"
  /\ ~isUpstashConfigured(env)
  /\ Tracked(Request(ip, ua, endpoint, slug), "http_error")

\* the pipeline call yields null
TrackStoreFails(ip, ua, endpoint, slug, reply) ==
  /\ underTest = "abuse"
  /\ isUpstashConfigured(env)
  /\ reply \in {"http_error", "lost"}
  /\ Tracked(Request(ip, ua, endpoint, slug), reply)

\* the pipeline call yields an array: counts, thresholds, decision
TrackCounted(ip, ua, endpoint, slug, reply) ==
  /\ underTest = "abuse"
  /\ isUpstashConfigured(env)
  /\ reply \in {"results", "unparsed", "errors"}
  /\ Tracked(Request(ip, ua, endpoint, slug), reply)

\* a call that returns only when the notifier did not fail
AfterAlertUncaught(d, sent, reason) ==
  [d EXCEPT !.returned = sent \/ reason \in {"missing_email_config",
                                             "dedup_lock_active"},
            !.alert = IF sent THEN "sent" ELSE reason]

\* await notifyCriticalAbuse(...).catch(() => {}), then the return of the
\* decision computed before it; alert keeps what became of the e-mail
AfterAlert(d, sent, reason) ==
  [d EXCEPT !.returned = TRUE, !.alert = IF sent THEN "sent" ELSE reason]

\* the critical call awaited notifyCriticalAbuse(...).catch(() => {}) and
\* returns its decision
Notified(lockReply, smtp) ==
  LET req == decision.req
      key == dedupKey(req.endpoint, req.slug, hashShort(req.ip)) IN
  /\ decision.alert = "pending"
  /\ \E r \in {notifyCriticalAbuse(env,
                 [counters |-> counters, leaderboards |-> leaderboards,
                  locks |-> locks],
                 req.endpoint, req.slug, hashShort(req.ip),
                 now \div MsPerSecond, lockReply, smtp)} :
       /\ locks' = r.db.locks
       /\ emails' = IF r.sent
                      THEN [emails EXCEPT ![key] =
                              Append(@, [at |-> now \div MsPerSecond,
                                         locked |-> lockReply = "results"])]
                      ELSE emails
       /\ decision' = AfterAlert(decision, r.sent, r.reason)
  /\ UNCHANGED <<now, env, counters, leaderboards, tracked, arrivals,
                 nonAbuseVars>>

TrackNotified(lockReply, smtp) ==
  /\ underTest = "abuse"
  /\ Notified(lockReply, smtp)

NextAbuse ==
  \/ \E ip \in Addresses, ua \in UserAgents, ep \in Endpoints, s \in Slugs :
       TrackDisabled(ip, ua, ep, s)
  \/ \E ip \in Addresses, ua \in UserAgents, ep \in Endpoints, s \in Slugs,
        reply \in PipelineReplies :
       TrackStoreFails(ip, ua, ep, s, reply)
  \/ \E ip \in Addresses, ua \in UserAgents, ep \in Endpoints, s \in Slugs,
        reply \in PipelineReplies :
       TrackCounted(ip, ua, ep, s, reply)
  \/ \E lockReply \in PipelineReplies, smtp \in SmtpOutcomes :
       TrackNotified(lockReply, smtp)

SpecAbuse == Init /\ [][NextAbuse]_vars

(***************************************************************************)
(* The abuse tracker under the traffic of the application's own clients,   *)
(* time passing between the calls                                          *)
(***************************************************************************)
TrafficUserAgents == {ua \in UserAgents : isKnownUserAgent(ua)}

\* the call as the history keeps it: counted when the store ran its
\* commands
Arrival(req, t, reply) ==
  [at |-> t, ip |-> req.ip, ua |-> req.ua, endpoint |-> req.endpoint,
   counted |-> isUpstashConfigured(env)
               /\ reply \notin {"http_error", "errors"}]

\* one trackAbuseRequest call, whatever becomes of its pipeline
TrafficRequest(ip, ua, endpoint, slug, reply) ==
  /\ underTest = "traffic"
  /\ tracked < MaxTraffic
  /\ \E req \in {Request(ip, ua, endpoint, slug)} :
       /\ Track(req, reply)
       /\ arrivals' = Append(arrivals,
                             Arrival(req, now \div MsPerSecond, reply))

\* the alert of a critical call
TrafficAlert(lockReply, smtp) ==
  /\ underTest = "traffic"
  /\ Notified(lockReply, smtp)

NextTraffic ==
  \/ AbuseTick
  \/ \E ip \in Addresses, ua \in TrafficUserAgents, ep \in Endpoints,
        s \in Slugs, reply \in PipelineReplies :
       TrafficRequest(ip, ua, ep, s, reply)
  \/ \E lockReply \in PipelineReplies, smtp \in SmtpOutcomes :
       TrafficAlert(lockReply, smtp)

SpecTraffic == Init /\ [][NextTraffic]_vars

(***************************************************************************)
(* The counters of the store under calls that differ in one of address,    *)
(* User-Agent, endpoint and slug                                           *)
(***************************************************************************)
\* one request, and those that differ from it in one respect
CounterRequests ==
  LET ip == CHOOSE a \in Addresses : TRUE
      ua == CHOOSE u \in UserAgents : TRUE
      ep == CHOOSE e \in Endpoints : TRUE
      slug == CHOOSE x \in Slugs : TRUE IN
  {Request(ip, ua, ep, slug)}
    \cup {Request(a, ua, ep, slug) : a \in Addresses}
    \cup {Request(ip, u, ep, slug) : u \in UserAgents}
    \cup {Request(ip, ua, e, slug) : e \in StoreEndpoints}
    \cup {Request(ip, ua, ep, x) : x \in StoreSlugs}

\* one trackAbuseRequest call; the store runs the pipeline or answers with
\* an error status
CounterRequest(ip, ua, endpoint, slug, reply) ==
  /\ underTest = "counters"
  /\ tracked < MaxCounted
  /\ Track(Request(ip, ua, endpoint, slug), reply)
  /\ UNCHANGED arrivals

\* the alert of a critical call
CounterAlert(lockReply, smtp) ==
  /\ underTest = "counters"
  /\ Notified(lockReply, smtp)

NextCounters ==
  \/ AbuseTick
  \/ \E req \in CounterRequests, reply \in {"results", "http_error"} :
       CounterRequest(req.ip, req.ua, req.endpoint, req.slug, reply)
  \/ \E lockReply \in {"results"}, smtp \in {"accepted"} :
       CounterAlert(lockReply, smtp)

SpecCounters == Init /\ [][NextCounters]_vars

(***************************************************************************)
(* Claims about trackAbuseRequest                                          *)
(***************************************************************************)

\* the User-Agent values of the model that match a known pattern
KnownUserAgents == {ua \in UserAgents : isKnownUserAgent(ua)}

\* C9: a decision is blocked exactly when the mode is 'enforce', the
\* User-Agent matches no known pattern, and the 1-minute count of the
\* address reached the hard threshold or that of the User-Agent reached the
\* unknown-UA threshold; in 'observe' mode, and for a known User-Agent,
\* no decision is blocked
C9_BlockedIff ==
  decision.returned =>
    /\ decision.blocked <=>
         /\ decision.metrics.present
         /\ env.ABUSE_MONITOR_MODE = "enforce"
         /\ decision.req.ua \notin KnownUserAgents
         /\ \/ decision.metrics.ip1m >= env.thresholds.burstIpHard1m
            \/ decision.metrics.ua1m >= env.thresholds.spikeUnknownUa1m
    /\ env.ABUSE_MONITOR_MODE # "enforce" => ~decision.blocked
    /\ decision.req.ua \in KnownUserAgents => ~decision.blocked
    /\ (decision.metrics.present /\ decision.headers.window1m > 0) =>
         LET ipKey == buildCounterKey("ip", decision.req.endpoint,
                                      WINDOW_SECONDS.oneMinute,
                                      hashShort(decision.req.ip))
             uaKey == buildCounterKey("ua", decision.req.endpoint,
                                      WINDOW_SECONDS.oneMinute,
                                      hashShort(decision.req.ua)) IN
         /\ decision.metrics.ip1m = counters[ipKey].n
         /\ decision.metrics.ua1m = counters[uaKey].n

\* an unknown User-Agent blocked in 'enforce' mode on its own count, the
\* address being below the hard threshold
C9_Blocked ==
  /\ decision.returned /\ decision.blocked
  /\ decision.mode = "enforce"
  /\ decision.metrics.ip1m < env.thresholds.burstIpHard1m
  /\ decision.metrics.ua1m >= env.thresholds.spikeUnknownUa1m

\* the severity of a decision that read the counters
SeverityHeader(halfReached) ==
  LET m == decision.metrics
      th == env.thresholds
      isCritical == \/ m.global1m >= th.spikeGlobal1m
                    \/ m.ip1m >= th.burstIpHard1m
                    \/ (decision.req.ua \notin KnownUserAgents
                        /\ m.ua1m >= th.spikeUnknownUa1m) IN
  IF isCritical THEN "critical"
  ELSE IF m.ip1m >= th.burstIpSoft1m \/ halfReached THEN "warning"
  ELSE "normal"

\* C10 as stated: the severity is 'critical' iff global_1m >= the global
\* spike threshold or ip_1m >= the hard threshold or (UA unknown and ua_1m
\* >= the unknown-UA threshold), 'warning' iff not critical and (ip_1m >=
\* the soft threshold or ua_1m >= half the unknown-UA threshold), 'normal'
\* otherwise
C10_SeverityExactHalf ==
  (decision.returned /\ decision.metrics.present) =>
    decision.headers.severity =
      SeverityHeader(2 * decision.metrics.ua1m
                       >= env.thresholds.spikeUnknownUa1m)

\* C10, amended: as above, with the half of the unknown-UA threshold
\* rounded down to a whole number
C10_SeverityFlooredHalf ==
  (decision.returned /\ decision.metrics.present) =>
    decision.headers.severity =
      SeverityHeader(decision.metrics.ua1m
                       >= env.thresholds.spikeUnknownUa1m \div 2)

\* a warning owed to the User-Agent count alone, which is below the exact
\* half of an odd threshold
C10_WarningBelowExactHalf ==
  /\ decision.returned /\ decision.metrics.present
  /\ decision.headers.severity = "warning"
  /\ decision.metrics.ip1m < env.thresholds.burstIpSoft1m
  /\ 2 * decision.metrics.ua1m < env.thresholds.spikeUnknownUa1m

(***************************************************************************)
(* Claims about the rate windows and the alert                             *)
(***************************************************************************)

\* the calls to the endpoint of the latest call that were made less than
\* span seconds before it, itself included; with kind "ip" or "ua", those
\* of the same address or User-Agent only
RecentArrivals(span, kind) ==
  LET latest == arrivals[Len(arrivals)] IN
  {i \in DOMAIN arrivals :
     /\ arrivals[i].endpoint = latest.endpoint
     /\ arrivals[i].at > latest.at - span
     /\ kind = "global" \/ arrivals[i][kind] = latest[kind]}

\* C11: the 60 s counts a decision uses (global_1m, ip_1m, ua_1m) count
\* only requests received within the last 60 s plus the 30 s pad: a
\* request older than that contributes to none of them
C11_CountsOnlyTheWindow ==
  decision.metrics.present =>
    LET span == WINDOW_SECONDS.oneMinute + ExpirePadSeconds IN
    /\ decision.metrics.global1m <= Cardinality(RecentArrivals(span, "global"))
    /\ decision.metrics.ip1m <= Cardinality(RecentArrivals(span, "ip"))
    /\ decision.metrics.ua1m <= Cardinality(RecentArrivals(span, "ua"))

\* a request that follows the previous one by more than window + 30 s
\* starts from a count of one
C11_CountRestarted ==
  /\ decision.metrics.present
  /\ Len(arrivals) > 1
  /\ arrivals[Len(arrivals) - 1].counted
  /\ decision.metrics.global1m = 1

\* the calls the store counted, in order of arrival
Counted == SelectSeq(arrivals, LAMBDA a : a.counted)

\* the start of the fixed window of span seconds that counted call i falls
\* in: the first call opens a window, and so does each call that arrives
\* once the window before it has expired
RECURSIVE WindowStart(_, _, _)
WindowStart(calls, i, span) ==
  IF i = 1 THEN calls[1].at
  ELSE LET before == WindowStart(calls, i - 1, span) IN
       IF calls[i].at >= before + span THEN calls[i].at ELSE before

\* the counted calls that precede the latest one by less than span seconds
EarlierInWindow(span) ==
  {i \in 1..(Len(Counted) - 1) :
     Counted[i].at > Counted[Len(Counted)].at - span}

\* C12: once globalSpikeThreshold requests reached the endpoint within
\* 60 s, the decision for the next request in that window is 'critical';
\* a request that arrives once the window (its 30 s pad included) has
\* expired is decided 'normal' again, the thresholds being such that a lone
\* request is normal
C12_CriticalThenNormal ==
  (decision.metrics.present /\ decision.headers.window1m > 0) =>
    LET th == env.thresholds
        last == Len(Counted) IN
    /\ Cardinality(EarlierInWindow(WINDOW_SECONDS.oneMinute))
         >= th.spikeGlobal1m
       => decision.headers.severity = "critical"
    /\ ( /\ last > 1
         /\ Counted[last].at
              >= WindowStart(Counted, last - 1,
                             WINDOW_SECONDS.oneMinute + ExpirePadSeconds)
                 + WINDOW_SECONDS.oneMinute + ExpirePadSeconds
         /\ th.spikeGlobal1m > 1 /\ th.burstIpSoft1m > 1
         /\ th.burstIpHard1m > 1 /\ th.spikeUnknownUa1m \div 2 > 1 )
       => decision.headers.severity = "normal"

\* the request that follows globalSpikeThreshold requests of the last 60 s
\* is decided 'critical'
C12_CriticalInWindow ==
  /\ decision.metrics.present /\ decision.headers.window1m > 0
  /\ Cardinality(EarlierInWindow(WINDOW_SECONDS.oneMinute))
       >= env.thresholds.spikeGlobal1m
  /\ decision.headers.severity = "critical"

\* C13: for one dedup key (endpoint + slug + ip hash) at most one alert
\* e-mail is sent per dedup window of 1800 s: two e-mails whose lock
\* commands the store both ran and answered lie a window or more apart
C13_OneAlertPerDedupWindow ==
  \A k \in DedupKeys :
    \A i, j \in DOMAIN emails[k] :
      ( /\ i < j
        /\ emails[k][i].locked
        /\ emails[k][j].locked )
      => emails[k][j].at - emails[k][i].at >= DedupWindowSeconds

\* a first alert went out and left its lock in the store
C13_AlertSentLockHeld ==
  \E k \in DedupKeys :
    /\ Len(emails[k]) = 1
    /\ emails[k][1].locked
    /\ locks[lockKey(k)] = emails[k][1].at + DedupWindowSeconds

\* C14: when the pipeline call fails or the store cannot be reached,
\* trackAbuseRequest returns (it does not throw) a decision with
\* blocked = false and provider 'disabled'
C14_StoreFailureGivesDisabled ==
  (tracked > 0 /\ decision.results # "array") =>
    /\ decision.returned
    /\ ~decision.blocked
    /\ decision.provider = "disabled"
    /\ decision.headers.provider = "disabled"

\* C14, amended: when the pipeline call fails or the store cannot be
\* reached, trackAbuseRequest returns a decision with blocked = false; its
\* provider is 'disabled' when the store is not configured and 'upstash'
\* when the store is configured and the pipeline call gave null
C14_StoreFailureFailsOpen ==
  (tracked > 0 /\ decision.results # "array") =>
    /\ decision.returned
    /\ ~decision.blocked
    /\ decision.provider
         = (IF env.upstash THEN "upstash" ELSE "disabled")
    /\ decision.headers.provider = decision.provider
    /\ decision.results = (IF env.upstash THEN "null" ELSE "none")

\* the store is configured, its pipeline call failed, and the call returned
\* a decision that blocks nothing
C14_FailedOpen ==
  /\ tracked > 0 /\ decision.results = "null"
  /\ env.ABUSE_MONITOR_MODE = "enforce"
  /\ decision.returned /\ ~decision.blocked

\* C15 as stated: every AbuseDecision returned, blocked or not and on
\* every return path, carries the headers reporting mode, provider,
\* severity and the 1-minute and 5-minute window counts
C15_AllHeadersOnEveryReturn ==
  decision.returned =>
    /\ decision.headers.names = HeaderNames
    /\ decision.headers.mode = decision.mode
    /\ decision.headers.provider = decision.provider
    /\ decision.headers.severity \in {"normal", "warning", "critical"}

\* C15, amended: every AbuseDecision returned carries the mode and provider
\* headers; it carries the severity and the two window counts as well,
\* blocked or not, when the counters were read, and only the first two on
\* the returns taken without counters
C15_HeadersByReturnPath ==
  decision.returned =>
    /\ decision.headers.mode = decision.mode
    /\ decision.headers.provider = decision.provider
    /\ IF decision.results = "array"
         THEN /\ decision.headers.names = HeaderNames
              /\ decision.headers.severity \in {"normal", "warning", "critical"}
              /\ decision.headers.window1m = decision.metrics.global1m
              /\ decision.headers.window5m = decision.metrics.global5m
         ELSE /\ decision.headers.names
                   = {"X-FacilAbo-Abuse-Mode", "X-FacilAbo-Abuse-Provider"}
              /\ decision.headers.severity = "absent"

\* a blocked decision that carries the five headers
C15_BlockedWithHeaders ==
  /\ decision.returned /\ decision.blocked
  /\ decision.headers.names = HeaderNames
  /\ decision.headers.window1m > 0

\* C16: the AbuseDecision a critical call returns (blocked, reason,
\* severity, metrics) is the one computed before the alert, whether the
\* notifier sends, is not configured, is suppressed by the dedup lock or
\* fails; and the call returns in each of these cases
C16_NotifierNeverChangesDecision ==
  [][decision.alert = "pending" /\ decision'.alert # "pending" =>
       /\ decision'.returned
       /\ decision'.alert \in {"sent", "missing_email_config",
                               "dedup_lock_active", "smtp_error"}
       /\ decision'.blocked = decision.blocked
       /\ decision'.reason = decision.reason
       /\ decision'.mode = decision.mode
       /\ decision'.provider = decision.provider
       /\ decision'.headers = decision.headers
       /\ decision'.metrics = decision.metrics
       /\ decision'.req = decision.req]_vars

\* a critical, blocked decision returned after the SMTP dialogue failed
C16_ReturnedAfterSmtpError ==
  /\ decision.returned
  /\ decision.alert = "smtp_error"
  /\ decision.blocked
  /\ decision.headers.severity = "critical"

(***************************************************************************)
(* The calendar metadata route, from the text of the upstream's response   *)
(* to the metadata it answers with                                         *)
(***************************************************************************)
CalendarSlugs == {RACE_ONLY_F1_SLUG, "ligue-1"}

\* events.filter(e => e.start > now).sort(by start)[0]: its index, 0 if none
nextEvent(events, t) ==
  LET upcoming == {i \in 1..Len(events) : events[i].start > t \div MsPerSecond}
  IN IF upcoming = {} THEN 0
     ELSE CHOOSE i \in upcoming :
            \A j \in upcoming :
              \/ events[i].start < events[j].start
              \/ events[i].start = events[j].start /\ i <= j

Metadata(slug, text, events) ==
  [slug |-> slug, text |-> text, events |-> events,
   eventCount |-> Len(events),
   timePrecision |->
     IF nextEvent(events, now) = 0 THEN "undefined"
     ELSE detectTimePrecision(events[nextEvent(events, now)])]

MetadataParsed(slug) ==
  /\ underTest = "ics"
  /\ \E text \in {applyCalendarTransform(slug, icsText)} :
       \E events \in {parseIcsEvents(text, timezone)} :
         icsResult' = Metadata(slug, text, events)
  /\ UNCHANGED <<icsText, composed, timezone, icsLines, rewrites, nonIcsVars>>

NextIcs == \E slug \in CalendarSlugs : MetadataParsed(slug)

SpecIcs == Init /\ [][NextIcs]_vars

(***************************************************************************)
(* The calendar proxy route rewriting the header of the calendar           *)
(***************************************************************************)
Upserted(key, value) ==
  /\ underTest = "rewrite"
  /\ Len(rewrites) < MaxUpserts
  /\ icsLines' = upsertHeaderProp(icsLines, key, value)
  /\ rewrites' = Append(rewrites,
                        [key |-> key, value |-> value, lines |-> icsLines])
  /\ UNCHANGED <<icsText, composed, timezone, icsResult, nonIcsVars>>

NextRewrite ==
  \E key \in HeaderKeys, value \in DisplayNames : Upserted(key, value)

SpecRewrite == Init /\ [][NextRewrite]_vars

(***************************************************************************)
(* The service handlers answering geo searches (services/stations.ts,      *)
(* hospitals.ts, post-offices.ts).  The clock does not move here: an entry *)
(* of the cache is fresh, and a miss means there is no stale entry either. *)
(***************************************************************************)
cached(key) == {e \in svcCache : e.key = key}

\* handler: parse, answer 400, or go to search*NearLocation, which reads the
\* cache first
ServiceBegin(query) ==
  /\ underTest = "geo"
  /\ svcReq.pc # "searching"
  /\ served < MaxSearches
  /\ served' = served + 1
  /\ \E parsed \in {parseServiceSearchParams(query, ParseOptions(route))} :
       svcReq' =
         IF ~parsed.ok
           THEN [NoSearch EXCEPT !.pc = "done", !.query = query,
                                  !.parsed = parsed, !.status = parsed.status,
                                  !.retryable = parsed.retryable]
         ELSE IF cached(parsed.cacheKey) # {}
           THEN [NoSearch EXCEPT !.pc = "done", !.query = query,
                   !.parsed = parsed, !.status = 200, !.reads = 1,
                   !.body = (CHOOSE e \in cached(parsed.cacheKey) : TRUE).value]
         ELSE [NoSearch EXCEPT !.pc = "searching", !.query = query,
                                !.parsed = parsed, !.reads = 1]
  /\ UNCHANGED <<route, upstream, svcCache, nonSvcVars>>

\* the upstream answers: rank, cache.set, 200
ServiceUpstreamAnswers ==
  /\ svcReq.pc = "searching"
  /\ \E found \in {searchNearLocation(route, upstream, svcReq.parsed.lat,
                                      svcReq.parsed.lng, svcReq.parsed.radiusKm,
                                      svcReq.parsed.limit)} :
       /\ svcCache' = svcCache \cup
            {[key |-> svcReq.parsed.cacheKey, value |-> found,
              lat |-> svcReq.parsed.lat, lng |-> svcReq.parsed.lng]}
       /\ svcReq' = [svcReq EXCEPT !.pc = "done", !.status = 200,
                                   !.body = found, !.writes = 1, !.fetches = 1]
  /\ UNCHANGED <<route, upstream, served, nonSvcVars>>

\* the upstream fails: no stale entry, resolveEndpointError
ServiceUpstreamFails(err) ==
  /\ svcReq.pc = "searching"
  /\ svcReq' = [svcReq EXCEPT !.pc = "done",
                              !.status = resolveEndpointError(err),
                              !.retryable = TRUE,
                              !.fetches = 1]
  /\ UNCHANGED <<route, upstream, svcCache, served, nonSvcVars>>

NextGeo ==
  \/ \E query \in Queries : ServiceBegin(query)
  \/ ServiceUpstreamAnswers
  \/ \E err \in UpstreamErrors : ServiceUpstreamFails(err)

SpecGeo == Init /\ [][NextGeo]_vars

(***************************************************************************)
(* The result scrapers at work                                             *)
(***************************************************************************)
\* scrapeSportResults / scrapeRugbyResults: the page was fetched or the fetch
\* failed
MatchesScraped(fetched) ==
  /\ underTest = "results"
  /\ discipline \in MatchSports
  /\ ~scraped.done
  /\ scraped' = [done |-> TRUE, fetched |-> fetched,
                 parsed |-> IF fetched THEN parseFlashscoreData(discipline, feed)
                            ELSE <<>>,
                 results |-> scrapeSportResults(discipline, fetched, feed),
                 podium |-> <<>>]
  /\ UNCHANGED <<discipline, feed, feedBlocks, nonFeedVars>>

\* scrapeF1Results (scrapeMotoGPResults alike)
RacesScraped(fetched) ==
  /\ underTest = "results"
  /\ discipline \in RaceSports
  /\ ~scraped.done
  /\ scraped' = [done |-> TRUE, fetched |-> fetched, parsed |-> <<>>,
                 results |-> <<>>,
                 podium |-> scrapeF1Results(fetched, feed)]
  /\ UNCHANGED <<discipline, feed, feedBlocks, nonFeedVars>>

NextResults ==
  \/ \E fetched \in BOOLEAN : MatchesScraped(fetched)
  \/ \E fetched \in BOOLEAN : RacesScraped(fetched)

SpecResults == Init /\ [][NextResults]_vars

(***************************************************************************)
(* Claims about the calendar parsing and filtering                         *)
(***************************************************************************)
\* the calendar holds one event, taken from those that vary the dates, and
\* the route has answered for it
OneDatedEvent ==
  /\ icsResult.slug # "none"
  /\ Len(composed.fragments) = 1
  /\ composed.fragments[1] \in DatedFragments

\* one of the rules 1 to 3 applies to the fragment as it was written
RulesOneToThree(f) ==
  f.params = VALUE_DATE \/ f.start.form = "date" \/ f.allDay

\* C17: detectTimePrecision answers 'day' whenever DTSTART carries a
\* VALUE=DATE parameter, whatever the other fields; else whenever the DTSTART
\* value is an 8-digit date; else whenever the all-day marker is on the event.
C17_RulesOneToThreeGiveDay ==
  OneDatedEvent /\ RulesOneToThree(composed.fragments[1])
    => icsResult.timePrecision = "day"

\* a timed DTSTART without VALUE=DATE, on an event with the marker, got 'day'
C17_MarkerOnTimedEvent ==
  /\ OneDatedEvent
  /\ composed.fragments[1].allDay
  /\ composed.fragments[1].params = <<>>
  /\ composed.fragments[1].start = When("local", 0, 14)
  /\ icsResult.timePrecision = "day"

\* the value is written as a date, or with the time of day 000000
MidnightValued(when) == when.form = "date" \/ (when.form # "none" /\ when.hour = 0)

\* the instant a value stands for, counted in seconds from 2025-01-31T00:00Z
Instant(when, tz) ==
  when.day * SecondsPerDay + when.hour * 3600
    - (IF when.form = "utc" THEN 0 ELSE tz * 60)

WholeDays(f, tz) ==
  /\ Instant(f.end, tz) - Instant(f.start, tz) >= SecondsPerDay
  /\ (Instant(f.end, tz) - Instant(f.start, tz)) % SecondsPerDay = 0

\* C18: when none of the rules 1 to 3 applies, detectTimePrecision answers
\* 'day' exactly when DTEND exists, DTSTART and DTEND are both midnight-valued
\* and end - start is a whole number, at least 1, of 24-hour periods; in every
\* other case it answers 'time'.
C18_MidnightSpanRule ==
  OneDatedEvent /\ ~RulesOneToThree(composed.fragments[1])
    => /\ icsResult.timePrecision \in {"day", "time"}
       /\ icsResult.timePrecision = "day"
            <=> /\ composed.fragments[1].end.form # "none"
                /\ MidnightValued(composed.fragments[1].start)
                /\ MidnightValued(composed.fragments[1].end)
                /\ WholeDays(composed.fragments[1], timezone)

\* two midnights, 47 hours apart: a UTC midnight and a local one, the local
\* time being ahead of UTC
C18_MidnightsNotWholeDays ==
  /\ OneDatedEvent
  /\ ~RulesOneToThree(composed.fragments[1])
  /\ timezone = 60
  /\ composed.fragments[1].start = When("utc", 0, 0)
  /\ composed.fragments[1].end = When("local", 2, 0)
  /\ icsResult.timePrecision = "time"

\* a fragment with its END:VEVENT, a DTSTART that can be parsed and a SUMMARY
\* that is not empty
Complete(f) == f.kind = "event"

\* the summaries of the complete fragments, in the order of the document
CompleteSummaries ==
  [i \in 1..Len(SelectSeq(composed.fragments, Complete)) |->
     SelectSeq(composed.fragments, Complete)[i].summary]

\* the route has parsed the text as the upstream sent it
ParsedAsReceived == icsResult.slug \notin {"none", RACE_ONLY_F1_SLUG}

\* C19: parseIcsEvents returns exactly one event, in document order, for each
\* fragment that has END:VEVENT, a parseable DTSTART and a non-empty SUMMARY;
\* the other fragments contribute nothing and do not keep the others from
\* being returned; eventCount is the number of returned events.
C19_OneEventPerCompleteFragment ==
  ParsedAsReceived
    => /\ [i \in 1..Len(icsResult.events) |-> icsResult.events[i].summary]
            = CompleteSummaries
       /\ icsResult.eventCount = Len(CompleteSummaries)

\* a fragment whose SUMMARY is empty was returned as an event, summarised by
\* its DTSTART line
C19_EventFromBlankSummary ==
  /\ ParsedAsReceived
  /\ Len(composed.fragments) = 1
  /\ composed.fragments[1].kind = "blank"
  /\ icsResult.eventCount = 1
  /\ icsResult.events[1].summary
       = DTSTART \o <<":">> \o DateValue(composed.fragments[1].start)

\* the fragments that end a VEVENT span: those with their END:VEVENT line
SpanEnds(doc) ==
  {i \in 1..Len(doc.fragments) : doc.fragments[i].kind # "unterminated"}

\* the text of the fragments first..last, as Render lays them out
RECURSIVE RenderRange(_, _, _)
RenderRange(doc, first, last) ==
  IF first > last THEN <<>>
  ELSE RenderFragment(doc.fragments[first], doc.style)
         \o (IF first < last THEN Separator(doc) ELSE <<>>)
         \o RenderRange(doc, first + 1, last)

\* the VEVENT spans of the document as it was written: a span runs from a
\* BEGIN:VEVENT to the first END:VEVENT line after it
WrittenSpans(doc) ==
  LET ends == SpanEnds(doc)
      nth(k) == CHOOSE e \in ends : Cardinality({x \in ends : x <= e}) = k
  IN [k \in 1..Cardinality(ends) |->
        RenderRange(doc, IF k = 1 THEN 1 ELSE nth(k - 1) + 1, nth(k))]

\* the text after the last span
WrittenFooter(doc) ==
  LET last == CHOOSE e \in SpanEnds(doc) : \A x \in SpanEnds(doc) : x <= e IN
  (IF last < Len(doc.fragments)
     THEN Separator(doc) \o RenderRange(doc, last + 1, Len(doc.fragments))
     ELSE <<>>)
    \o CalendarFooter(doc.style)

\* the blocks occur in the text one after the other, from position from on
RECURSIVE OccurInOrder(_, _, _)
OccurInOrder(text, blocks, from) ==
  \/ blocks = <<>>
  \/ \E p \in from..Len(text) :
       /\ startsAt(text, Head(blocks), p)
       /\ OccurInOrder(text, Tail(blocks), p + Len(Head(blocks)))

\* the route has filtered the text with isF1RaceEvent
Filtered == icsResult.slug = RACE_ONLY_F1_SLUG

\* C20: filterEvents returns the text before the first VEVENT span and the
\* text after the last one unchanged, and the spans the predicate accepts
\* appear in the output each unchanged and in their relative order; an input
\* without VEVENT span is returned unchanged.
C20_HeaderFooterAndKeptSpans ==
  Filtered
    => IF SpanEnds(composed) = {}
         THEN icsResult.text = icsText
         ELSE LET header == CalendarHeader(composed.style)
                  footer == WrittenFooter(composed)
                  out == icsResult.text
              IN /\ Len(out) >= Len(header) + Len(footer)
                 /\ SubSeq(out, 1, Len(header)) = header
                 /\ SubSeq(out, Len(out) - Len(footer) + 1, Len(out)) = footer
                 /\ OccurInOrder(SubSeq(out, 1, Len(out) - Len(footer)),
                                 SelectSeq(WrittenSpans(composed), isF1RaceEvent),
                                 Len(header) + 1)

\* of two spans the first was rejected and the second kept
C20_SprintDroppedRaceKept ==
  /\ Filtered
  /\ Len(composed.fragments) = 2
  /\ composed.fragments[1].kind = "event"
  /\ composed.fragments[1].summary = Sprint
  /\ composed.fragments[2].kind = "event"
  /\ composed.fragments[2].summary = Race
  /\ icsResult.text = CalendarHeader(composed.style)
                        \o RenderFragment(composed.fragments[2], composed.style)
                        \o CalendarFooter(composed.style)

\* the document without the spans the predicate rejects: the header, each
\* accepted span, the text written between two spans, and the footer
RECURSIVE WithoutRejected(_, _)
WithoutRejected(doc, k) ==
  IF k > Len(WrittenSpans(doc)) THEN <<>>
  ELSE (IF isF1RaceEvent(WrittenSpans(doc)[k])
          THEN WrittenSpans(doc)[k] ELSE <<>>)
         \o (IF k < Len(WrittenSpans(doc)) THEN Separator(doc) ELSE <<>>)
         \o WithoutRejected(doc, k + 1)

\* C21: filterEvents changes the document only by removing the VEVENT spans
\* the predicate rejects; all other text, the text between two spans
\* included, is in the output unchanged and in order; when every event is
\* accepted the output is the input.
C21_OnlyRejectedSpansRemoved ==
  Filtered
    => IF SpanEnds(composed) = {}
         THEN icsResult.text = icsText
         ELSE icsResult.text
                = CalendarHeader(composed.style)
                    \o WithoutRejected(composed, 1)
                    \o WrittenFooter(composed)

\* two accepted events with another component between them: the output is
\* the two events without that component
C21_ComponentBetweenEventsLost ==
  /\ Filtered
  /\ composed.separated
  /\ Len(composed.fragments) = 2
  /\ \A i \in 1..2 : /\ composed.fragments[i].kind = "event"
                     /\ composed.fragments[i].summary = Race
  /\ icsResult.text # icsText
  /\ icsResult.text
       = CalendarHeader(composed.style)
           \o RenderFragment(composed.fragments[1], composed.style)
           \o RenderFragment(composed.fragments[2], composed.style)
           \o CalendarFooter(composed.style)

(***************************************************************************)
(* Claims about upsertHeaderProp                                           *)
(***************************************************************************)
\* the lines the i-th call returned
Returned(i) == IF i < Len(rewrites) THEN rewrites[i + 1].lines ELSE icsLines

HeaderLength(lines) ==
  Cardinality({i \in 1..Len(lines) :
                 \A j \in 1..i : ~startsWith(lines[j], BEGIN_VEVENT)})

\* the header lines that start with 'KEY:'
Existing(lines, key) ==
  {i \in 1..HeaderLength(lines) : startsWith(lines[i], key \o <<":">>)}

\* the header lines that are BEGIN:VCALENDAR
Begins(lines) == {i \in 1..HeaderLength(lines) : lines[i] = BEGIN_VCALENDAR}

\* after is before with its line at position p replaced by line
ReplacedAt(before, after, p, line) == after = [before EXCEPT ![p] = line]

\* after is before with line inserted behind its first p lines
InsertedAfter(before, after, p, line) ==
  after = SubSeq(before, 1, p) \o <<line>> \o SubSeq(before, p + 1, Len(before))

\* the lines from the first BEGIN:VEVENT on are the same, in the same order
BodyKept(before, after) ==
  LET body == SubSeq(before, HeaderLength(before) + 1, Len(before)) IN
  /\ Len(after) >= Len(body)
  /\ SubSeq(after, Len(after) - Len(body) + 1, Len(after)) = body

\* what the claim says of one call; onTop tells whether the line may go to
\* the top of a header that has no BEGIN:VCALENDAR line
UpsertFrame(before, after, key, value, onTop) ==
  /\ BodyKept(before, after)
  /\ Len(after) \in {Len(before), Len(before) + 1}
  /\ IF Existing(before, key) # {}
       THEN ReplacedAt(before, after,
                       CHOOSE p \in Existing(before, key) :
                         \A q \in Existing(before, key) : p <= q,
                       key \o <<":">> \o value)
       ELSE \/ \E b \in Begins(before) :
                 InsertedAfter(before, after, b, key \o <<":">> \o value)
            \/ /\ onTop
               /\ Begins(before) = {}
               /\ InsertedAfter(before, after, 0, key \o <<":">> \o value)

\* C23 as stated: every line from the first BEGIN:VEVENT on is unchanged, and
\* the header changes in one place: the first 'KEY:' line is replaced by
\* 'KEY:value' or, when there is none, 'KEY:value' is inserted immediately
\* after BEGIN:VCALENDAR; the result has the same number of lines or one more.
C23_ReplacesOrInsertsAfterBegin ==
  \A i \in 1..Len(rewrites) :
    UpsertFrame(rewrites[i].lines, Returned(i), rewrites[i].key,
                rewrites[i].value, FALSE)

\* C23: the same, the line being inserted at the top of the header when the
\* header has no BEGIN:VCALENDAR line.
C23_ReplacesOrInsertsAfterBeginOrOnTop ==
  \A i \in 1..Len(rewrites) :
    UpsertFrame(rewrites[i].lines, Returned(i), rewrites[i].key,
                rewrites[i].value, TRUE)

\* a header without the property and without BEGIN:VCALENDAR, before an
\* event that holds both: the line went to the top
C23_InsertedOnTop ==
  /\ Len(rewrites) = 1
  /\ Len(rewrites[1].lines) = 3
  /\ startsWith(rewrites[1].lines[1], BEGIN_VEVENT)
  /\ rewrites[1].lines[2] = BEGIN_VCALENDAR
  /\ startsWith(rewrites[1].lines[3], rewrites[1].key \o <<":">>)
  /\ icsLines = <<rewrites[1].key \o <<":">> \o rewrites[1].value>>
                  \o rewrites[1].lines

(***************************************************************************)
(* Claims about the service searches                                       *)
(***************************************************************************)
Answered == svcReq.pc = "done" /\ svcReq.status = 200

\* the distance of a returned item from the point the request asked about
FromQueryPoint(item) ==
  calculateDistance(svcReq.parsed.lat, svcReq.parsed.lng,
                    item.latitude, item.longitude)

WithinAskedRadius(item) ==
  /\ hasCoordinates(item)
  /\ FromQueryPoint(item) * DmPerMetre <= svcReq.parsed.radiusKm

\* C24: every item a geo search returns has coordinates and lies at most
\* radius * 1000 m from the query point, the items come nearest first, there
\* are at most `limit` of them, and when fewer than `limit` come back none of
\* the source's records within the radius (a record exactly at the radius
\* included) is missing
C24_WithinRadiusNearestFirst ==
  Answered =>
    /\ \A i \in 1..Len(svcReq.body) : WithinAskedRadius(svcReq.body[i])
    /\ \A i, j \in 1..Len(svcReq.body) :
         i < j => FromQueryPoint(svcReq.body[i]) <= FromQueryPoint(svcReq.body[j])
    /\ Len(svcReq.body) <= svcReq.parsed.limit
    /\ Len(svcReq.body) < svcReq.parsed.limit =>
         Len(svcReq.body) = Len(SelectSeq(upstream, WithinAskedRadius))

\* a stations search with radius=0.1 that missed the cache and answers with
\* the station 300 m away
C24_StationBeyondSmallRadius ==
  /\ route = "stations"
  /\ Answered
  /\ svcReq.fetches = 1
  /\ svcReq.parsed.lat = QueryPoint
  /\ svcReq.parsed.radiusKm = SmallRadiusKm
  /\ \E i \in 1..Len(svcReq.body) : FromQueryPoint(svcReq.body[i]) = 300

\* the candidates the upstream source gave the ranking of the request
Candidates ==
  CASE route = "stations" ->
         fetchStations(upstream, svcReq.parsed.lat, svcReq.parsed.lng,
                       Min(svcReq.parsed.limit * 4, MaxUpstreamLimit))
    [] route = "hospitals" ->
         fetchHospitals(upstream, svcReq.parsed.lat, svcReq.parsed.lng,
                        Max(MinRadiusMeters, MathRound(svcReq.parsed.radiusKm)),
                        Min(svcReq.parsed.limit * 4, MaxUpstreamLimit))
    [] route = "post-offices" -> fetchAllPostOffices(upstream)

Eligible == SelectSeq(Candidates, WithinAskedRadius)

NoFartherThan(items, d) ==
  Cardinality({i \in 1..Len(items) : FromQueryPoint(items[i]) <= d})

\* C25: a search that ranks the upstream's candidates returns exactly the
\* first `limit` of the candidates with coordinates within the radius, nearest
\* first: as many as there are up to `limit`, each one of them, in ascending
\* distance, and up to any distance as many as the eligible candidates allow
C25_FirstLimitOfEligible ==
  (Answered /\ svcReq.fetches = 1) =>
    /\ Len(svcReq.body) = Min(svcReq.parsed.limit, Len(Eligible))
    /\ \A i \in 1..Len(svcReq.body) :
         \E j \in 1..Len(Eligible) :
           /\ Eligible[j].latitude = svcReq.body[i].latitude
           /\ Eligible[j].longitude = svcReq.body[i].longitude
    /\ \A i, j \in 1..Len(svcReq.body) :
         i < j => svcReq.body[i].distance <= svcReq.body[j].distance
    /\ \A i \in 1..Len(svcReq.body) :
         /\ svcReq.body[i].distance = FromQueryPoint(svcReq.body[i])
         /\ NoFartherThan(svcReq.body, svcReq.body[i].distance)
              = Min(svcReq.parsed.limit,
                    NoFartherThan(Eligible, svcReq.body[i].distance))

\* a stations search with radius=0.1 and limit=1 whose only slot goes to the
\* station 300 m away, a candidate without coordinates having been dropped
C25_SlotToStationBeyondRadius ==
  /\ route = "stations"
  /\ Answered
  /\ svcReq.fetches = 1
  /\ svcReq.parsed.radiusKm = SmallRadiusKm
  /\ svcReq.parsed.limit = 1
  /\ \E i \in 1..Len(Candidates) : ~hasCoordinates(Candidates[i])
  /\ Len(svcReq.body) = 1
  /\ FromQueryPoint(svcReq.body[1]) = 300

\* a raw coordinate that is no number within [-most, most]
BadCoordinate(raw, most) ==
  raw.kind # "number" \/ raw.n < 0 - most \/ raw.n > most

\* a raw radius that is given and is no number in (0, maxRadiusKm]
BadRadius(raw) ==
  /\ raw.kind # "absent"
  /\ \/ raw.kind # "number"
     \/ raw.n <= 0
     \/ raw.n > ParseOptions(route).maxRadiusKm

\* a request by coordinates (no cp, no city, lat or lng given) with a wrong one
BadGeoRequest ==
  /\ svcReq.pc # "idle"
  /\ trim(svcReq.query.cp) = <<>> /\ trim(svcReq.query.city) = <<>>
  /\ svcReq.query.lat.kind # "absent" \/ svcReq.query.lng.kind # "absent"
  /\ \/ BadCoordinate(svcReq.query.lat, MaxLatitude)
     \/ BadCoordinate(svcReq.query.lng, MaxLongitude)
     \/ BadRadius(svcReq.query.radius)

Refused ==
  /\ svcReq.pc = "done"
  /\ svcReq.status = 400
  /\ ~svcReq.retryable
  /\ svcReq.reads = 0 /\ svcReq.writes = 0 /\ svcReq.fetches = 0

\* C26: a geo request whose lat is outside [-90, 90], whose lng is outside
\* [-180, 180], one of whose coordinates is not a number, or whose radius is
\* not a number in (0, maxRadiusKm] is answered 400 with retryable = false,
\* without an upstream call and without a cache read or write
C26_BadGeoRequestRefused == BadGeoRequest => Refused

\* a request with lat=0abc was searched upstream and answered 200
C26_PrefixedLatitudeSearched ==
  /\ svcReq.query.lat.kind = "prefixed"
  /\ Answered
  /\ svcReq.reads = 1 /\ svcReq.fetches = 1 /\ svcReq.writes = 1

ServedFromCache == Answered /\ svcReq.reads = 1 /\ svcReq.fetches = 0

\* C27: requests that get the same cache key search upstream alike: a result
\* served from the cache was stored by a search for the very coordinates
\* (and, through the key, the radius and limit) of the request it is served to
C27_CachedResultOfSameSearch ==
  ServedFromCache =>
    \A e \in cached(svcReq.parsed.cacheKey) :
      e.lat = svcReq.parsed.lat /\ e.lng = svcReq.parsed.lng

\* a request at one point is served the result stored for the point 40 m
\* north of it, which is not what its own search would have returned
C27_ServedAnotherPointsResult ==
  /\ ServedFromCache
  /\ svcReq.parsed.lat = QueryPoint
  /\ \E e \in cached(svcReq.parsed.cacheKey) : e.lat = NearbyPoint
  /\ svcReq.body # searchNearLocation(route, upstream, svcReq.parsed.lat,
                                      svcReq.parsed.lng, svcReq.parsed.radiusKm,
                                      svcReq.parsed.limit)

(***************************************************************************)
(* Claims about the service handlers' error answers                        *)
(***************************************************************************)
\* C28: when the upstream call of a service search fails and the cache has
\* no stale entry for the key, the answer has status 429 if the upstream
\* answered 429 and status 502 otherwise
C28_NoStaleIs429Or502 ==
  [][\A r \in Reqs, err \in UpstreamErrors :
       (StationsFetchThrows(r, err) /\ getStale(entries, reqs[r].key) = Null)
         => /\ reqs'[r].pc = "done"
            /\ reqs'[r].status = IF err = "http429" THEN 429 ELSE 502]_vars

\* a stations request whose upstream call failed with nothing stale to serve
\* was answered 500
C28_FailureAnswered500 ==
  \E r \in Reqs :
    /\ reqs[r].h = "stations" /\ reqs[r].pc = "done" /\ reqs[r].failed
    /\ reqs[r].marker = "none"
    /\ reqs[r].status = 500

(***************************************************************************)
(* Claims about the result scrapers                                        *)
(***************************************************************************)
Fields(block, key) == SelectSeq(block.fields, LAMBDA f : f.key = key)

HasScore(block, key) ==
  \E i \in 1..Len(Fields(block, key)) :
    /\ Fields(block, key)[i].value # <<>>
    /\ DigitCharacter(Fields(block, key)[i].value[1])

HasName(block, key) ==
  \E i \in 1..Len(Fields(block, key)) : trim(Fields(block, key)[i].value) # <<>>

\* the home team named by the field two after the WM field
NamedAfterWM(block) ==
  \E i \in 1..(Len(block.fields) - 2) :
    /\ block.fields[i].key = WM
    /\ block.fields[i + 2].key = AF
    /\ trim(block.fields[i + 2].value) # <<>>

\* a block with a home score, an away score and both team names
WellFormed(block) ==
  /\ HasScore(block, AG) /\ HasScore(block, AH)
  /\ HasName(block, CX) \/ NamedAfterWM(block)
  /\ HasName(block, AF)

MatchesParsed == scraped.done /\ scraped.fetched /\ discipline \in MatchSports

\* C29: parseFlashscoreData and parseFlashscoreRugbyData return (they do not
\* throw), with no record for a block that lacks a home score, an away score
\* or a team name: at most one record per well-formed block, and exactly the
\* records they return for the feed without the malformed blocks
C29_MalformedBlocksSkipped ==
  MatchesParsed =>
    /\ Len(scraped.parsed) <= Len(SelectSeq(feedBlocks, WellFormed))
    /\ scraped.parsed =
         parseFlashscoreData(discipline,
                             RenderFeed(SelectSeq(feedBlocks, WellFormed)))

\* a feed whose first block has no home score and whose second block is
\* complete was parsed into the one record of the second block
C29_RecordAfterMalformedBlock ==
  /\ MatchesParsed
  /\ Len(feedBlocks) = 2
  /\ ~HasScore(feedBlocks[1], AG)
  /\ WellFormed(feedBlocks[2])
  /\ Len(scraped.parsed) = 1
  /\ scraped.parsed[1].homeScore = 2 /\ scraped.parsed[1].awayScore = 1
  /\ scraped.parsed[1].index = 0

\* one of the result scrapers has returned
MatchesReturned == scraped.done /\ discipline \in MatchSports
RacesReturned == scraped.done /\ discipline \in RaceSports

\* C30: the match results the football and rugby scrapers return are in
\* order of date descending, then time descending, and are at most 30; the
\* race results of the F1 and MotoGP scrapers are at most 3, each with a
\* position in 1..3, in order of position ascending
C30_ResultsSortedAndCapped ==
  /\ MatchesReturned =>
       /\ Len(scraped.results) <= MaxResults
       /\ \A i, j \in 1..Len(scraped.results) :
            i < j => ~later(scraped.results[i], scraped.results[j])
  /\ RacesReturned =>
       /\ Len(scraped.podium) <= PodiumSize
       /\ \A i \in 1..Len(scraped.podium) :
            scraped.podium[i].position \in 1..PodiumSize
       /\ \A i, j \in 1..Len(scraped.podium) :
            i < j => scraped.podium[i].position <= scraped.podium[j].position

\* the feed held more matches than the scraper returns, the later day last
\* among its first two blocks, and the results start with the later day
C30_LongFeedCutToThirty ==
  /\ MatchesReturned
  /\ Len(scraped.parsed) > MaxResults
  /\ Len(scraped.results) = MaxResults
  /\ later(scraped.parsed[1], scraped.parsed[2])
  /\ later(scraped.results[MaxResults], scraped.results[1])

(***************************************************************************)
(* Claims about the delays and the observer of withRetry                   *)
(***************************************************************************)
\* min(maxDelay, initialDelay * backoffMultiplier^k) of the call's options
Backoff(k) ==
  Min(opts.initialDelay * Pow(opts.backoffMultiplier, k), opts.maxDelay)

\* without jitter the delays are the backoff values, none above maxDelay,
\* none below the one before
PlainDelays ==
  ~opts.jitter =>
    \A i \in DOMAIN retryLog :
      /\ retryLog[i].delay = Backoff(retryLog[i].attempt - 1)
      /\ retryLog[i].delay <= opts.maxDelay
      /\ i > 1 => retryLog[i - 1].delay <= retryLog[i].delay

\* the delay after failed attempt k is at least
\* min(maxDelay, initialDelay * backoffMultiplier^k) and at most 1.25 times
\* that value; without jitter it is that value, so the delays do not
\* decrease with k and never exceed maxDelay
C33_DelayWithinQuarter ==
  /\ \A i \in DOMAIN retryLog :
       /\ Backoff(retryLog[i].attempt - 1) <= retryLog[i].delay
       /\ 4 * retryLog[i].delay <= 5 * Backoff(retryLog[i].attempt - 1)
  /\ PlainDelays

\* C33, amended: the delay after failed attempt k is the value
\* min(maxDelay, initialDelay * backoffMultiplier^k), times a factor from 1
\* to 1.25 when jitter is on, rounded to the nearest millisecond: it is at
\* least that value and less than half a millisecond more than 1.25 times
\* it; without jitter it is that value, so the delays do not decrease with k
\* and never exceed maxDelay
C33_DelayRoundedWithinQuarter ==
  /\ \A i \in DOMAIN retryLog :
       /\ Backoff(retryLog[i].attempt - 1) <= retryLog[i].delay
       /\ 4 * retryLog[i].delay <= 5 * Backoff(retryLog[i].attempt - 1) + 2
  /\ PlainDelays

\* a jittered delay was rounded up, and a delay was cut to maxDelay
C33_RoundedUpAndCapped ==
  /\ opts.jitter
  /\ Len(retryLog) = 2
  /\ retryLog[1].delay > Backoff(0)
  /\ opts.initialDelay * Pow(opts.backoffMultiplier, 1) > opts.maxDelay

\* the calls of onRetry so far: the i-th has number i, the error of attempt
\* i - 1 and a delay; while the call sleeps the last one has the error just
\* caught and the delay being slept; there is one per sleep, which is one
\* per invocation but the last
ObserverCalls ==
  /\ \A i \in DOMAIN retryLog :
       /\ retryLog[i].attempt = i
       /\ retryLog[i].error.at = i - 1
       /\ retryLog[i].error.cause # "none"
  /\ Len(retryLog) = rt.sleeps
  /\ rt.pc = "sleeping" =>
       /\ Len(retryLog) = rt.invocations
       /\ retryLog[Len(retryLog)].error = rt.lastError
       /\ retryLog[Len(retryLog)].delay = rt.slept
  /\ rt.pc \in {"running", "resolved", "rejected"} =>
       Len(retryLog) = rt.invocations - 1

C37_OneInvocationInFlight ==
  /\ Cardinality(inflight) <= 1
  /\ rt.pc = "running" => inflight \subseteq {rt.attempt}

\* attempt 0 timed out, its operation is still pending, and attempt 1 runs
C37_RetryBesidePendingOperation ==
  /\ rt.pc = "running"
  /\ rt.attempt = 1
  /\ retryLog[1].error.cause = "timeout"
  /\ inflight = {0, 1}

(***************************************************************************)
(* Claims about the counters trackAbuseRequest keeps                       *)
(***************************************************************************)
\* the counters of one call: global, slug, ip-hash and ua-hash, for each of
\* the three windows
OwnCounters(req) ==
  {k \in CounterKeys :
     /\ k[2] = req.endpoint
     /\ k[3] \in {60, 300, 3600}
     /\ \/ k[1] = "global"
        \/ k[1] = "slug" /\ k[4] = req.slug
        \/ k[1] = "ip" /\ k[4] = hashShort(req.ip)
        \/ k[1] = "ua" /\ k[4] = hashShort(req.ua)}

\* the count a key holds at time t: nothing once its expiry is reached
CountAt(k, t) == IF Live(counters[k], t) THEN counters[k].n ELSE 0
ScoreAt(k, m, t) ==
  IF LiveSet(leaderboards[k], t) THEN leaderboards[k].scores[m] ELSE 0

\* the member of a leaderboard a request adds to
OwnMember(k, req) ==
  IF k[1] = "topip" THEN hashShort(req.ip) ELSE hashShort(req.ua)

\* the step is a trackAbuseRequest call whose pipeline the store ran
CountedCall == tracked' = tracked + 1 /\ decision'.results = "array"

UpstreamFailed(r) ==
  /\ reqs[r].pc = "fetching"
  /\ reqs'[r].pc = "done"
  /\ reqs'[r].failed \/ reqs'[r].status = 502

\* C38: a cache entry is created or overwritten only with data obtained
\* from a successful upstream fetch: in every handler (services, calendars,
\* TV schedule, sport results) a request whose upstream call fails leaves
\* the cache content for its key as it was before the request's fetch
C38_FailedFetchLeavesCache ==
  [][\A r \in Reqs :
       UpstreamFailed(r) =>
         /\ entries'[reqs[r].key] = entries[reqs[r].key]
         /\ genericCache'[reqs[r].key] = genericCache[reqs[r].key]
         /\ cache'[reqs[r].key] = cache[reqs[r].key]]_vars

\* the empty results of a scrape whose fetch failed are in the cache, and
\* were served from it to another request
C38_EmptyResultsCached ==
  /\ underTest = "sport"
  /\ written["tv"][RESULTS_KEY].value = EmptyResults
  /\ cache[RESULTS_KEY].present
  /\ cache[RESULTS_KEY].data = EmptyResults
  /\ \E r \in Reqs :
       /\ reqs[r].pc = "done" /\ ~reqs[r].failed
       /\ reqs[r].body = EmptyResults

(***************************************************************************)
(* Claims about overlapping requests for one cache key                     *)
(***************************************************************************)
\* both requests missed the cache for one key, fetched and wrote
BothWrote ==
  /\ Len(origin.arrived) = 2
  /\ origin.arrived[1].key = origin.arrived[2].key
  /\ \A r \in Reqs : reqs[r].pc = "done"

\* the entry left is the one of the set that ran last, with its timestamp
LastWriteWins ==
  BothWrote =>
    LET last == origin.arrived[2] IN
    /\ entries[last.key] = Entry(last.data, last.at, 0)
    /\ written["ttl"][last.key].value = last.data

\* when two requests for one key overlap on a miss, both fetch and both
\* write; the entry left after both is the one written by the set that ran
\* last, with that set's timestamp, and it holds the most recent upstream
\* response: cached data never goes back to an older upstream response
\* than one already cached
C39_LastWriteWinsNeverRegresses ==
  /\ LastWriteWins
  /\ BothWrote =>
       VersionOf(origin.arrived[2].data) >= VersionOf(origin.arrived[1].data)

\* C39, amended: when two requests for one key overlap on a miss, both
\* fetch and both write; the entry left after both is the one written by
\* the set that ran last, with that set's timestamp: it holds the response
\* that arrived last, whichever state of the upstream data it was made from
C39_LastWriteWins == LastWriteWins

\* the response made from the older data arrived last and replaced the
\* newer one in the cache
C39_OlderResponseWroteLast ==
  /\ BothWrote
  /\ VersionOf(origin.arrived[2].data) < VersionOf(origin.arrived[1].data)
  /\ origin.arrived[2].at > origin.arrived[1].at
  /\ entries[origin.arrived[2].key].data = origin.arrived[2].data

(***************************************************************************)
(* The TV-schedule scraper: the page is the sequence of its elements in    *)
(* document order, each with its tag, its text and, for a link, its href.  *)
(* Dates and times are the character sequences the code builds and         *)
(* compares.  The channel of a match is left out.                          *)
(***************************************************************************)
ScheduleDays == 14    \* twoWeeksFromNow.getDate() + 14
ScheduleCap == 20     \* matches.slice(0, 20)
MaxHeaderLength == 100  \* directText.length < 100

EACUTE == "<e-acute>"
UCIRC == "<u-circumflex>"

\* the keys of monthMap in the order of their values: the alternatives of
\* the pattern of parseFrenchDate
MonthNames ==
  << <<"j", "a", "n", "v", "i", "e", "r">>, <<"f", EACUTE>> \o <<"v", "r", "i", "e", "r">>, <<"m", "a", "r", "s">>, <<"a", "v", "r", "i", "l">>, <<"m", "a", "i">>,
     <<"j", "u", "i", "n">>, <<"j", "u", "i", "l", "l", "e", "t">>, <<"a", "o", UCIRC, "t">>, <<"s", "e", "p", "t", "e", "m", "b", "r", "e">>,
     <<"o", "c", "t", "o", "b", "r", "e">>, <<"n", "o", "v", "e", "m", "b", "r", "e">>, <<"d", EACUTE>> \o <<"c", "e", "m", "b", "r", "e">> >>

\* the end of the run of white space that starts at i (i - 1 when none)
spaceEnd(str, i) ==
  LET stops == {j \in i..(Len(str) + 1) :
                  j = Len(str) + 1 \/ str[j] \notin Whitespace} IN
  (CHOOSE j \in stops : \A l \in stops : j <= l) - 1

FourDigits(n) == TwoDigits(n \div 100) \o TwoDigits(n % 100)

\* `${year}-${month}-${day}`
IsoDate(year, month, day) ==
  FourDigits(year) \o <<"-">> \o TwoDigits(month) \o <<"-">> \o day

\* parseFrenchDate: /(\d{1,2})\s+(janvier|...|decembre)/i at its leftmost
\* match, the day padded to two digits, the year that of the clock or, for
\* January and February read in November or December, the next one; <<>>
\* stands for null
parseFrenchDate(text, clock) ==
  LET lower == toLowerCase(text)
      monthAt(i, n) ==
        {m \in DOMAIN MonthNames :
           /\ spaceEnd(lower, i + n) >= i + n
           /\ startsAt(lower, MonthNames[m], spaceEnd(lower, i + n) + 1)}
      digitsAt(i, n) == \A j \in i..(i + n - 1) :
                          j <= Len(lower) /\ DigitCharacter(lower[j])
      hits == {i \in 1..Len(lower) :
                 \E n \in {1, 2} : digitsAt(i, n) /\ monthAt(i, n) # {}} IN
  IF hits = {} THEN <<>>
  ELSE LET i == CHOOSE h \in hits : \A j \in hits : h <= j
           n == IF digitsAt(i, 2) /\ monthAt(i, 2) # {} THEN 2 ELSE 1
           month == CHOOSE m \in monthAt(i, n) : TRUE
           day == IF n = 2 THEN SubSeq(lower, i, i + 1)
                  ELSE <<"0", lower[i]>>
           year == IF clock.month >= 11 /\ month <= 2 THEN clock.year + 1
                   ELSE clock.year IN
       IsoDate(year, month, day)

\* fullText.match(/(\d{1,2}:\d{2})/): where the leftmost match starts and
\* how long it is, 0 and 0 when there is none
timeMatch(fullText) ==
  LET matchAt(i, n) ==
        /\ i + n + 2 <= Len(fullText)
        /\ \A j \in i..(i + n - 1) : DigitCharacter(fullText[j])
        /\ fullText[i + n] = ":"
        /\ DigitCharacter(fullText[i + n + 1]) /\ DigitCharacter(fullText[i + n + 2])
      hits == {i \in 1..Len(fullText) : matchAt(i, 1) \/ matchAt(i, 2)} IN
  IF hits = {} THEN [start |-> 0, length |-> 0]
  ELSE LET i == CHOOSE h \in hits : \A j \in hits : h <= j IN
       [start |-> i, length |-> IF matchAt(i, 2) THEN 5 ELSE 4]

\* href.match(/\/live\/(\d+)/): the digits after the first '/live/' that
\* has some, <<>> when there is none
matchId(href) ==
  LET live == <<"/", "l", "i", "v", "e", "/">>
      hits == {i \in 1..Len(href) :
                 /\ startsAt(href, live, i)
                 /\ i + Len(live) <= Len(href)
                 /\ DigitCharacter(href[i + Len(live)])} IN
  IF hits = {} THEN <<>>
  ELSE run(href, (CHOOSE h \in hits : \A j \in hits : h <= j) + Len(live),
           "digits")

\* the length of the match of /\s+-\s+|\s{2,}/ that starts at i, 0 when it
\* does not match there
separatorAt(str, i) ==
  LET e == spaceEnd(str, i) IN
  IF e < i THEN 0
  ELSE IF e < Len(str) /\ str[e + 1] = "-" /\ spaceEnd(str, e + 2) >= e + 2
    THEN spaceEnd(str, e + 2) - i + 1
  ELSE IF e - i + 1 >= 2 THEN e - i + 1
  ELSE 0

\* String.prototype.split(/\s+-\s+|\s{2,}/)
RECURSIVE splitTeams(_)
splitTeams(str) ==
  LET hits == {i \in 1..Len(str) : separatorAt(str, i) > 0} IN
  IF hits = {} THEN <<str>>
  ELSE LET i == CHOOSE h \in hits : \A j \in hits : h <= j IN
       <<SubSeq(str, 1, i - 1)>>
         \o splitTeams(SubSeq(str, i + separatorAt(str, i), Len(str)))

\* .replace(/Logo\s*/gi, '')
removeLogo(str) ==
  LET logo == <<"l", "o", "g", "o">>
      lower == toLowerCase(str)
      starts == {i \in 1..Len(str) : startsAt(lower, logo, i)}
      del == UNION {i..spaceEnd(str, i + Len(logo)) : i \in starts} IN
  IF starts = {} THEN str ELSE Without(str, del, 1, Len(str))

NoTvMatch ==
  [id |-> <<>>, homeTeam |-> <<>>, awayTeam |-> <<>>, date |-> <<>>,
   time |-> <<>>]

\* the body of the callback of $('*').each for a link whose id was not seen
\* before: the match it pushes, or NoTvMatch when it returns without one
parseLink(el, id, currentDate) ==
  LET fullText == trim(el.text)
      tm == timeMatch(fullText)
      time == SubSeq(fullText, tm.start, tm.start + tm.length - 1)
      textWithoutTime ==
        trim(SubSeq(fullText, 1, tm.start - 1)
               \o SubSeq(fullText, tm.start + tm.length, Len(fullText)))
      teamParts == splitTeams(textWithoutTime)
      homeTeam == IF Len(teamParts) >= 2 THEN trim(removeLogo(teamParts[1]))
                  ELSE <<>>
      awayTeam == IF Len(teamParts) >= 2 THEN trim(removeLogo(teamParts[2]))
                  ELSE <<>> IN
  IF tm.start = 0 THEN NoTvMatch
  ELSE IF homeTeam = <<>> \/ awayTeam = <<>> THEN NoTvMatch
  ELSE [id |-> id, homeTeam |-> homeTeam, awayTeam |-> awayTeam,
        date |-> currentDate, time |-> time]

SkippedTags == {"script", "style", "meta", "link"}

\* currentDate once the first n elements were visited
RECURSIVE currentDateAfter(_, _, _)
currentDateAfter(elements, n, clock) ==
  IF n = 0 THEN IsoDate(clock.year, clock.month, TwoDigits(clock.day))
  ELSE LET el == elements[n]
           directText == trim(el.text)
           possibleDate == parseFrenchDate(directText, clock) IN
       IF /\ el.tag \notin SkippedTags
          /\ Len(directText) > 0 /\ Len(directText) < MaxHeaderLength
          /\ possibleDate # <<>>
         THEN possibleDate
         ELSE currentDateAfter(elements, n - 1, clock)

\* the links that reach the duplicate test with an id no link before them
\* had: those added to seenIds
firstOfId(elements) ==
  {i \in DOMAIN elements :
     /\ elements[i].tag = "a"
     /\ matchId(elements[i].href) # <<>>
     /\ \A j \in 1..(i - 1) :
          elements[j].tag = "a" =>
            matchId(elements[j].href) # matchId(elements[i].href)}

\* $('*').each(...): the matches pushed, in document order
walk(elements, clock) ==
  LET pushed == {i \in firstOfId(elements) :
                   parseLink(elements[i], matchId(elements[i].href),
                             currentDateAfter(elements, i, clock))
                     # NoTvMatch} IN
  [k \in 1..Cardinality(pushed) |->
     parseLink(elements[Nth(pushed, k)], matchId(elements[Nth(pushed, k)].href),
               currentDateAfter(elements, Nth(pushed, k), clock))]

\* the order localeCompare gives the characters of dates and times:
\* punctuation before the digits
CollationRank(ch) ==
  IF ch = "-" THEN 0
  ELSE IF ch = ":" THEN 1
  ELSE 1 + (CHOOSE d \in DOMAIN DigitChar : DigitChar[d] = ch)

\* a.localeCompare(b) < 0 for strings of digits, '-' and ':'
precedes(a, b) ==
  \E i \in 1..(Len(a) + 1) :
    /\ \A j \in 1..(i - 1) : j <= Len(b) /\ a[j] = b[j]
    /\ i <= Len(b)
    /\ i = Len(a) + 1 \/ CollationRank(a[i]) < CollationRank(b[i])

\* the comparator of matches.sort: a before b
earlier(a, b) ==
  \/ precedes(a.date, b.date)
  \/ a.date = b.date /\ precedes(a.time, b.time)

\* Array.prototype.sort(comparator): stable
RECURSIVE sortMatches(_)
sortMatches(matches) ==
  IF matches = <<>> THEN <<>>
  ELSE LET sorted == sortMatches(SubSeq(matches, 1, Len(matches) - 1))
           last == matches[Len(matches)]
           before == Cardinality({i \in 1..Len(sorted) :
                                    ~earlier(last, sorted[i])}) IN
       SubSeq(sorted, 1, before) \o <<last>>
         \o SubSeq(sorted, before + 1, Len(sorted))

\* twoWeeksFromNow.setDate(getDate() + 14), then toISOString().split('T')[0]
cutoffDate(clock) ==
  LET target == DaysFromCivil(clock.year, clock.month, clock.day)
                  + ScheduleDays
      dates == {d \in {clock.year, clock.year + 1} \X (1..12) \X (1..31) :
                  DaysFromCivil(d[1], d[2], d[3]) = target}
      date == CHOOSE d \in dates : \A e \in dates : d[3] <= e[3] IN
  IsoDate(date[1], date[2], TwoDigits(date[3]))

\* matches.filter(m => m.date <= cutoffDate)
filterUpcoming(matches, cutoff) ==
  LET kept == {i \in DOMAIN matches :
                 \/ matches[i].date = cutoff
                 \/ precedes(matches[i].date, cutoff)} IN
  [k \in 1..Cardinality(kept) |-> matches[Nth(kept, k)]]

\* the limit to the upcoming matches without the fallback to the first
\* twenty
upcomingOnly(matches, clock) == filterUpcoming(matches, cutoffDate(clock))

\* the matches of the response: the upcoming ones or, without any, the
\* first twenty
limitToUpcoming(matches, clock) ==
  LET upcomingMatches == filterUpcoming(matches, cutoffDate(clock)) IN
  IF Len(upcomingMatches) > 0 THEN upcomingMatches
  ELSE slice(matches, ScheduleCap)

\* scrapeTVSchedule with a page fetched: the walk through the page, the
\* sort and the limit; what it parsed and what it returns
SchedulePageFetched ==
  /\ underTest = "schedule"
  /\ tvSchedule.state = "idle"
  /\ \E pushed \in {walk(tvPage, tvClock)} :
       \E sorted \in {sortMatches(pushed)} :
         tvSchedule' = [state |-> "returned", parsed |-> sorted,
                        matches |-> limitToUpcoming(sorted, tvClock)]
  /\ UNCHANGED <<tvPage, tvClock, nonTvVars>>

\* scrapeTVSchedule with a response that is not ok: it throws
SchedulePageRefused ==
  /\ underTest = "schedule"
  /\ tvSchedule.state = "idle"
  /\ tvSchedule' = [state |-> "thrown", parsed |-> <<>>, matches |-> <<>>]
  /\ UNCHANGED <<tvPage, tvClock, nonTvVars>>

NextSchedule == SchedulePageFetched \/ SchedulePageRefused

SpecSchedule == Init /\ [][NextSchedule]_vars

(***************************************************************************)
(* Claims about the TV-schedule scraper                                    *)
(***************************************************************************)
\* the day a date string names, counted in days
DayNumber(date) ==
  DaysFromCivil(parseInt(SubSeq(date, 1, 4)), parseInt(SubSeq(date, 6, 7)),
                parseInt(SubSeq(date, 9, 10)))

\* the minute of the day a kick-off time names
KickOffMinute(time) ==
  LET colon == CHOOSE i \in 1..Len(time) : time[i] = ":" IN
  parseInt(SubSeq(time, 1, colon - 1)) * 60
    + parseInt(SubSeq(time, colon + 1, Len(time)))

Occurs(part, text) == \E i \in 1..Len(text) : startsAt(text, part, i)

\* the first link of the page whose href carries the id
FirstLinkOf(id) ==
  LET links == {i \in DOMAIN tvPage :
                  /\ tvPage[i].tag = "a"
                  /\ Occurs(<<"/">> \o id, tvPage[i].href)} IN
  tvPage[CHOOSE i \in links : \A j \in links : i <= j]

OnePerMatchId ==
  LET ms == tvSchedule.matches IN
  /\ \A i, j \in DOMAIN ms : ms[i].id = ms[j].id => i = j
  /\ \A i \in DOMAIN ms :
       /\ Occurs(ms[i].time, FirstLinkOf(ms[i].id).text)
       /\ Occurs(ms[i].homeTeam, FirstLinkOf(ms[i].id).text)
       /\ Occurs(ms[i].awayTeam, FirstLinkOf(ms[i].id).text)

TimeAndTeamsPresent ==
  \A i \in DOMAIN tvSchedule.matches :
    /\ tvSchedule.matches[i].time # <<>>
    /\ tvSchedule.matches[i].homeTeam # <<>>
    /\ tvSchedule.matches[i].awayTeam # <<>>

ByDateThenTime ==
  LET ms == tvSchedule.matches IN
  \A i, j \in DOMAIN ms :
    i < j =>
      \/ DayNumber(ms[i].date) < DayNumber(ms[j].date)
      \/ /\ ms[i].date = ms[j].date
         /\ KickOffMinute(ms[i].time) <= KickOffMinute(ms[j].time)

\* C31: the entries the TV-schedule scraper returns have ids that differ,
\* each taken from the first link of the page with its id, each with a
\* kick-off time, a home team and an away team, and they are in order of
\* date, then of kick-off time.
C31_OnePerIdCompleteSorted ==
  tvSchedule.state = "returned" =>
    OnePerMatchId /\ TimeAndTeamsPresent /\ ByDateThenTime

\* a kick-off at 18:00 returned before one at 9:00 of the same day
C31_EveningBeforeMorning ==
  /\ tvSchedule.state = "returned"
  /\ \E i, j \in DOMAIN tvSchedule.matches :
       /\ i < j
       /\ tvSchedule.matches[i].date = tvSchedule.matches[j].date
       /\ tvSchedule.matches[i].time = <<"1", "8", ":", "0", "0">>
       /\ tvSchedule.matches[j].time = <<"9", ":", "0", "0">>

\* the first two parts of C31 alone
C31_OnePerIdComplete ==
  tvSchedule.state = "returned" => OnePerMatchId /\ TimeAndTeamsPresent

\* the parsed entries dated at most ScheduleDays days after the clock's day
WithinTwoWeeks ==
  LET last == DaysFromCivil(tvClock.year, tvClock.month, tvClock.day)
                + ScheduleDays
      near == {i \in DOMAIN tvSchedule.parsed :
                 DayNumber(tvSchedule.parsed[i].date) <= last} IN
  [k \in 1..Cardinality(near) |-> tvSchedule.parsed[Nth(near, k)]]

\* C32: the result of the TV-schedule scraper is the sequence of the parsed
\* entries dated at most 14 days ahead when there is one; without one it is
\* the first 20 of the parsed entries in their sorted order; so it is empty
\* only when nothing was parsed.
C32_TwoWeeksElseFirstTwenty ==
  tvSchedule.state = "returned" =>
    /\ WithinTwoWeeks # <<>> => tvSchedule.matches = WithinTwoWeeks
    /\ WithinTwoWeeks = <<>> =>
         tvSchedule.matches
           = SubSeq(tvSchedule.parsed, 1,
                    Min(ScheduleCap, Len(tvSchedule.parsed)))
    /\ tvSchedule.matches = <<>> => tvSchedule.parsed = <<>>

\* more than 20 entries parsed, all dated beyond the two weeks: 20 returned
C32_FarMatchesCutToTwenty ==
  /\ tvSchedule.state = "returned"
  /\ Len(tvSchedule.parsed) > ScheduleCap
  /\ WithinTwoWeeks = <<>>
  /\ Len(tvSchedule.matches) = ScheduleCap

\* some parsed entries within the two weeks and some beyond: the latter left
\* out
C32_FarMatchesDropped ==
  /\ tvSchedule.state = "returned"
  /\ tvSchedule.matches # <<>>
  /\ Len(tvSchedule.matches) < Len(tvSchedule.parsed)
  /\ Len(tvSchedule.parsed) <= ScheduleCap

(***************************************************************************)
(* sendSmtpEmail and sendAlertEmail                                        *)
(***************************************************************************)
Step(verb, rcpt, expectedCodes) ==
  [verb |-> verb, rcpt |-> rcpt, expectedCodes |-> expectedCodes]

\* the body of the try block of sendSmtpEmail: the replies it awaits in
\* turn, each with what is written before it and the codes it takes
Dialogue(user, pass, to) ==
  <<Step("greeting", 0, {220}), Step("EHLO", 0, {250})>>
    \o (IF user /\ pass
          THEN <<Step("AUTH LOGIN", 0, {334}), Step("user", 0, {334}),
                 Step("pass", 0, {235})>>
          ELSE <<>>)
    \o <<Step("MAIL FROM", 0, {250})>>
    \o [i \in 1..to |-> Step("RCPT TO", i, {250, 251})]
    \o <<Step("DATA", 0, {354}), Step("payload", 0, {250}),
         Step("QUIT", 0, {221, 250})>>

Written(step) == [verb |-> step.verb, rcpt |-> step.rcpt]

\* /^\d{3} /.test(line)
isLastLine(line) ==
  /\ Len(line) >= 4
  /\ \A i \in 1..3 : DigitCharacter(line[i])
  /\ line[4] = " "

\* a send that takes whatever code it is answered
replyIgnored(expectedCodes, code) == TRUE

\* expectedCodes.includes(response.code), greeting.code === 220,
\* dataResp.code === 250
replyExpected(expectedCodes, code) == code \in expectedCodes

\* the finally block of sendSmtpEmail after a rejected read or a throw, and
\* the catch block of sendAlertEmail
Failed(m, reason) ==
  [m EXCEPT !.state = "returned", !.awaited = 0, !.ended = TRUE,
            !.sent = FALSE, !.reason = reason]

\* the promise of readResponse resolved with a code: the code is tested,
\* then the next command is written and its reply awaited, or, after QUIT,
\* the socket is ended and sendAlertEmail returns sent: true
Resolved(m, code) ==
  LET steps == Dialogue(m.user, m.pass, m.to)
      received == [m EXCEPT !.replies = Append(@, code), !.lines = 0] IN
  IF ~replyExpected(steps[m.step].expectedCodes, code)
    THEN Failed(received, "SMTP " \o steps[m.step].verb \o " failed")
  ELSE IF m.step = Len(steps)
    THEN [received EXCEPT !.state = "returned", !.awaited = 0,
                          !.ended = TRUE, !.sent = TRUE]
  ELSE [received EXCEPT !.step = @ + 1,
                        !.wire = Append(@, Written(steps[m.step + 1]))]

\* sendAlertEmail with a configuration: the lock is asked for, the socket
\* opened and the greeting awaited
SmtpStart(user, pass, to, lockAcquired) ==
  /\ underTest = "smtp"
  /\ mail.state = "idle"
  /\ mail' = IF ~lockAcquired
               THEN [mail EXCEPT !.state = "returned", !.user = user,
                                 !.pass = pass, !.to = to,
                                 !.reason = "dedup_lock_active"]
               ELSE [mail EXCEPT !.state = "dialogue", !.user = user,
                                 !.pass = pass, !.to = to, !.step = 1,
                                 !.awaited = 1]
  /\ UNCHANGED nonMailVars

\* socket.on('data'): the buffer is cut at each CRLF and every line handed
\* to handleLine; lines before the last line of the reply are collected,
\* lines after it find nothing pending and are dropped
SmtpData(chunk) ==
  /\ underTest = "smtp"
  /\ mail.state = "dialogue"
  /\ Len(mail.buffer) + Len(chunk) <= MaxBuffer
  /\ LET parts == split(mail.buffer \o chunk, CRLF)
         complete == SubSeq(parts, 1, Len(parts) - 1)
         rest == parts[Len(parts)]
         last == {i \in DOMAIN complete : isLastLine(complete[i])} IN
     IF last = {}
       THEN /\ mail.lines + Len(complete) <= MaxReplyLines
            /\ mail' = [mail EXCEPT !.buffer = rest,
                                    !.lines = @ + Len(complete)]
       ELSE LET i == CHOOSE l \in last : \A j \in last : l <= j IN
            mail' = Resolved([mail EXCEPT !.buffer = rest],
                             parseInt(SubSeq(complete[i], 1, 3)))
  /\ UNCHANGED nonMailVars

\* the timer of readResponse fires: pending is dropped and the read rejected
SmtpResponseTimeout ==
  /\ underTest = "smtp"
  /\ mail.state = "dialogue"
  /\ mail' = Failed(mail, "SMTP response timeout")
  /\ UNCHANGED nonMailVars

\* socket.on('timeout'): the read is rejected and the socket destroyed
SmtpSocketTimeout ==
  /\ underTest = "smtp"
  /\ mail.state = "dialogue"
  /\ mail' = [Failed(mail, "SMTP socket timeout") EXCEPT !.destroyed = TRUE]
  /\ UNCHANGED nonMailVars

\* socket.on('error'): the read is rejected with the error
SmtpSocketError ==
  /\ underTest = "smtp"
  /\ mail.state = "dialogue"
  /\ mail' = Failed(mail, "socket error")
  /\ UNCHANGED nonMailVars

NextSmtp ==
  \/ \E user, pass, lockAcquired \in BOOLEAN, to \in 1..MaxRecipients :
       SmtpStart(user, pass, to, lockAcquired)
  \/ \E chunk \in SmtpChunks : SmtpData(chunk)
  \/ SmtpResponseTimeout
  \/ SmtpSocketTimeout
  \/ SmtpSocketError

SpecSmtp == Init /\ [][NextSmtp]_vars

(***************************************************************************)
(* Claims about the SMTP dialogue                                          *)
(***************************************************************************)
\* the commands of a whole dialogue, in order
Commands(user, pass, to) ==
  <<"EHLO">> \o (IF user /\ pass THEN <<"AUTH LOGIN", "user", "pass">>
                 ELSE <<>>)
    \o <<"MAIL FROM">> \o [i \in 1..to |-> "RCPT TO"]
    \o <<"DATA", "payload", "QUIT">>

\* the codes that let the k-th awaited reply pass
Passing(verb) ==
  IF verb = "greeting" THEN {220}
  ELSE IF verb \in {"EHLO", "MAIL FROM", "payload"} THEN {250}
  ELSE IF verb \in {"AUTH LOGIN", "user"} THEN {334}
  ELSE IF verb = "pass" THEN {235}
  ELSE IF verb = "RCPT TO" THEN {250, 251}
  ELSE IF verb = "DATA" THEN {354}
  ELSE {221, 250}

\* what was written is the beginning of the dialogue, one RCPT TO per
\* recipient in their order, and before the k-th command the greeting and
\* the replies to the k - 1 commands before it had come with passing codes
InOrderAfterReplies ==
  LET commands == Commands(mail.user, mail.pass, mail.to)
      awaitedFor == <<"greeting">> \o commands
      rcpts == SelectSeq(mail.wire, LAMBDA w : w.verb = "RCPT TO") IN
  /\ Len(mail.wire) <= Len(commands)
  /\ \A k \in DOMAIN mail.wire :
       /\ mail.wire[k].verb = commands[k]
       /\ k <= Len(mail.replies)
       /\ mail.replies[k] \in Passing(awaitedFor[k])
  /\ \A i \in DOMAIN rcpts : rcpts[i].rcpt = i
  /\ mail.awaited <= 1

\* the dialogue is over and the e-mail did not go through all of it
Broken ==
  /\ mail.state = "returned"
  /\ mail.reason # "none"

FailOpen ==
  Broken => ~mail.sent /\ ~mail.thrown /\ (mail.step > 0 => mail.ended)

\* sent: true only after the whole dialogue, QUIT answered
SentAfterQuit ==
  mail.sent =>
    /\ Len(mail.wire) = Len(Commands(mail.user, mail.pass, mail.to))
    /\ Len(mail.replies) = Len(mail.wire) + 1
    /\ mail.replies[Len(mail.replies)] \in Passing("QUIT")
    /\ mail.ended

\* C36: sendSmtpEmail writes the commands of the dialogue in order, each
\* after the reply to the one before it came with an expected code, awaiting
\* one reply at a time; after a reply with another code, a response timeout
\* or a socket error nothing more is written, the socket is ended and
\* sendAlertEmail returns sent: false without throwing.
C36_DialogueInOrderFailOpen ==
  /\ [](InOrderAfterReplies /\ FailOpen /\ SentAfterQuit)
  /\ [][Broken => mail' = mail]_vars

\* a login and two recipients, the second refused with 550: the dialogue
\* stops after its RCPT TO
C36_SecondRecipientRefused ==
  /\ Broken /\ mail.user /\ mail.pass /\ mail.to = 2
  /\ mail.wire # <<>> /\ mail.replies # <<>>
  /\ mail.wire[Len(mail.wire)] = [verb |-> "RCPT TO", rcpt |-> 2]
  /\ mail.replies[Len(mail.replies)] = 550
  /\ mail.ended /\ ~mail.sent

\* a whole dialogue with a login and two recipients
C36_WholeDialogue ==
  /\ mail.sent /\ mail.user /\ mail.pass /\ mail.to = 2

(***************************************************************************)
(* The whole program                                                       *)
(***************************************************************************)
Next ==
  \/ NextCache \/ NextHandlers \/ NextRetry \/ NextAbuse \/ NextTraffic
  \/ NextIcs \/ NextRewrite \/ NextGeo \/ NextResults \/ NextCounters
  \/ NextOverlap \/ NextSchedule \/ NextSmtp

Spec == Init /\ [][Next]_vars

====
